---------------------------- MODULE Spec2Model ----------------------------
(***************************************************************************)
(* py2048: the game engine of src/backend/game.py (class Game) as a state  *)
(* machine.  One action per command of Game.process_command: a move in one *)
(* of the four directions, redo, restart.  The board is a sequence of rows *)
(* (board[y][x], 1-based here, 0-based in the source).                      *)
(***************************************************************************)
EXTENDS Integers, Sequences, FiniteSets, TLC

(***************************************************************************)
(* Configuration that is fixed in this model.                              *)
(***************************************************************************)
size_x == 3
size_y == 3
new_tile_values == {2}

(***************************************************************************)
(* Bounds of the model.                                                    *)
(***************************************************************************)
MaxMoves == 3
MaxRedos == 3

Directions == {"up", "down", "left", "right"}
MergeStrategies == {"standard", "reverse"}

VARIABLES
    board, score, streak, streak_multiplier, over, won, display_message,
    moves_count, move_history,      \* Game.state
    redos_used,                     \* session counter, not part of Game.state
    history,                        \* Game.history: list of state copies
    win_value, merge_strategy, allow_secondary_merge, max_redo, use_streak,
    streak_bonus_percent,
    initial_tiles, random_new_tiles, \* configuration of the instance
    response                        \* the CommandResponse of the last command

state == <<board, score, streak, streak_multiplier, over, won,
           display_message, moves_count, move_history>>
config == <<win_value, merge_strategy, allow_secondary_merge, max_redo, use_streak,
            streak_bonus_percent, initial_tiles, random_new_tiles>>
vars == <<state, redos_used, history, config, response>>

(***************************************************************************)
(* Lists.                                                                  *)
(***************************************************************************)
List(f) == f \o <<>>     \* a function on 1..n as a list

Reverse(s) == List([i \in 1..Len(s) |-> s[Len(s) + 1 - i]])

RECURSIVE SumSeq(_)
SumSeq(s) == IF s = <<>> THEN 0 ELSE Head(s) + SumSeq(Tail(s))

Zeros(n) == List([i \in 1..n |-> 0])

(***************************************************************************)
(* Game._merge_reverse: one scan from index 0 upward, then the secondary   *)
(* merge on the scan's output.                                             *)
(***************************************************************************)
\* Faulty variant: after a merge only the first tile of the pair is skipped
RECURSIVE reverse_scan_skips_one(_, _)
reverse_scan_skips_one(tiles, i) ==
    IF i > Len(tiles) THEN [result |-> <<>>, points |-> 0, merged |-> FALSE]
    ELSE IF i + 1 <= Len(tiles) /\ tiles[i] = tiles[i + 1]
         THEN LET rest == reverse_scan_skips_one(tiles, i + 1)
                  merged_value == tiles[i] + tiles[i + 1]
              IN  [result |-> <<merged_value>> \o rest.result,
                   points |-> merged_value + rest.points,
                   merged |-> TRUE]
         ELSE LET rest == reverse_scan_skips_one(tiles, i + 1)
              IN  [result |-> <<tiles[i]>> \o rest.result,
                   points |-> rest.points,
                   merged |-> rest.merged]

RECURSIVE reverse_scan(_, _)
reverse_scan(tiles, i) ==
    IF i > Len(tiles) THEN [result |-> <<>>, points |-> 0, merged |-> FALSE]
    ELSE IF i + 1 <= Len(tiles) /\ tiles[i] = tiles[i + 1]
         THEN LET rest == reverse_scan(tiles, i + 2)
                  merged_value == tiles[i] + tiles[i + 1]
              IN  [result |-> <<merged_value>> \o rest.result,
                   points |-> merged_value + rest.points,
                   merged |-> TRUE]
         ELSE LET rest == reverse_scan(tiles, i + 1)
              IN  [result |-> <<tiles[i]>> \o rest.result,
                   points |-> rest.points,
                   merged |-> rest.merged]

\* Faulty variant: the secondary merge is a single further scan
merge_reverse_one_secondary_scan(tiles, secondary) ==
    IF Len(tiles) = 0 THEN [result |-> <<>>, points |-> 0, merged |-> FALSE]
    ELSE LET first == reverse_scan(tiles, 1)
         IN  IF secondary /\ first.merged /\ Len(first.result) > 1
             THEN LET second == reverse_scan(first.result, 1)
                  IN  IF second.merged
                      THEN [result |-> second.result,
                            points |-> first.points + second.points,
                            merged |-> TRUE]
                      ELSE first
             ELSE first

\* Faulty variant: the secondary merge runs whatever the flag says
RECURSIVE merge_reverse_ignores_flag(_, _)
merge_reverse_ignores_flag(tiles, secondary) ==
    IF Len(tiles) = 0 THEN [result |-> <<>>, points |-> 0, merged |-> FALSE]
    ELSE LET first == reverse_scan(tiles, 1)
         IN  IF first.merged /\ Len(first.result) > 1
             THEN LET second == merge_reverse_ignores_flag(first.result,
                                                          secondary)
                  IN  IF second.merged
                      THEN [result |-> second.result,
                            points |-> first.points + second.points,
                            merged |-> TRUE]
                      ELSE first
             ELSE first

RECURSIVE merge_reverse(_, _)
merge_reverse(tiles, secondary) ==
    IF Len(tiles) = 0 THEN [result |-> <<>>, points |-> 0, merged |-> FALSE]
    ELSE LET first == reverse_scan(tiles, 1)
         IN  IF secondary /\ first.merged /\ Len(first.result) > 1
             THEN LET second == merge_reverse(first.result, secondary)
                  IN  IF second.merged
                      THEN [result |-> second.result,
                            points |-> first.points + second.points,
                            merged |-> TRUE]
                      ELSE first
             ELSE first

(***************************************************************************)
(* Game._merge_standard: one scan from the last index down to index 0,     *)
(* each emitted tile inserted at the front, then the secondary merge.      *)
(***************************************************************************)
\* Faulty variant: a merged pair leaves the value of one tile, not the sum
RECURSIVE standard_scan_loses_tile(_, _)
standard_scan_loses_tile(tiles, i) ==
    IF i < 1 THEN [result |-> <<>>, points |-> 0, merged |-> FALSE]
    ELSE IF i - 1 >= 1 /\ tiles[i] = tiles[i - 1]
         THEN LET rest == standard_scan_loses_tile(tiles, i - 2)
                  merged_value == tiles[i]
              IN  [result |-> rest.result \o <<merged_value>>,
                   points |-> merged_value + rest.points,
                   merged |-> TRUE]
         ELSE LET rest == standard_scan_loses_tile(tiles, i - 1)
              IN  [result |-> rest.result \o <<tiles[i]>>,
                   points |-> rest.points,
                   merged |-> rest.merged]

\* Faulty variant: neighbours are merged whether or not they are equal
RECURSIVE standard_scan_merges_any(_, _)
standard_scan_merges_any(tiles, i) ==
    IF i < 1 THEN [result |-> <<>>, points |-> 0, merged |-> FALSE]
    ELSE IF i - 1 >= 1
         THEN LET rest == standard_scan_merges_any(tiles, i - 2)
                  merged_value == tiles[i] + tiles[i - 1]
              IN  [result |-> rest.result \o <<merged_value>>,
                   points |-> merged_value + rest.points,
                   merged |-> TRUE]
         ELSE LET rest == standard_scan_merges_any(tiles, i - 1)
              IN  [result |-> rest.result \o <<tiles[i]>>,
                   points |-> rest.points,
                   merged |-> rest.merged]

RECURSIVE standard_scan(_, _)
standard_scan(tiles, i) ==
    IF i < 1 THEN [result |-> <<>>, points |-> 0, merged |-> FALSE]
    ELSE IF i - 1 >= 1 /\ tiles[i] = tiles[i - 1]
         THEN LET rest == standard_scan(tiles, i - 2)
                  merged_value == tiles[i] + tiles[i - 1]
              IN  [result |-> rest.result \o <<merged_value>>,
                   points |-> merged_value + rest.points,
                   merged |-> TRUE]
         ELSE LET rest == standard_scan(tiles, i - 1)
              IN  [result |-> rest.result \o <<tiles[i]>>,
                   points |-> rest.points,
                   merged |-> rest.merged]

\* Faulty variant: the standard policy scans from index 0 upward
merge_standard_from_front(tiles, secondary) ==
    merge_reverse(tiles, secondary)

\* Faulty variant: the secondary-merge flag is ignored
merge_standard_one_pass(tiles, secondary) ==
    IF Len(tiles) = 0 THEN [result |-> <<>>, points |-> 0, merged |-> FALSE]
    ELSE standard_scan(tiles, Len(tiles))

RECURSIVE merge_standard(_, _)
merge_standard(tiles, secondary) ==
    IF Len(tiles) = 0 THEN [result |-> <<>>, points |-> 0, merged |-> FALSE]
    ELSE LET first == standard_scan(tiles, Len(tiles))
         IN  IF secondary /\ first.merged /\ Len(first.result) > 1
             THEN LET second == merge_standard(first.result, secondary)
                  IN  IF second.merged
                      THEN [result |-> second.result,
                            points |-> first.points + second.points,
                            merged |-> TRUE]
                      ELSE first
             ELSE first

(***************************************************************************)
(* Game._process_line: compress, merge by the configured strategy, pad.    *)
(***************************************************************************)
non_zero(line) == SelectSeq(line, LAMBDA x : x # 0)

\* Faulty variant: the merged tiles are returned without the padding
process_line_not_padded(line, strategy, secondary) ==
    IF Len(non_zero(line)) = 0
    THEN [result |-> line, points |-> 0, merged |-> FALSE]
    ELSE LET m == IF strategy = "reverse"
                  THEN merge_reverse(non_zero(line), secondary)
                  ELSE merge_standard(non_zero(line), secondary)
         IN  [result |-> m.result, points |-> m.points, merged |-> m.merged]

process_line(line, strategy, secondary) ==
    IF Len(non_zero(line)) = 0
    THEN [result |-> line, points |-> 0, merged |-> FALSE]
    ELSE LET m == IF strategy = "reverse"
                  THEN merge_reverse(non_zero(line), secondary)
                  ELSE merge_standard(non_zero(line), secondary)
         IN  [result |-> m.result \o Zeros(Len(line) - Len(m.result)),
              points |-> m.points,
              merged |-> m.merged]

(***************************************************************************)
(* Game._move_left / _move_right / _move_up / _move_down on a board b.     *)
(* Each returns the new board, the points earned and the merge flag.       *)
(***************************************************************************)
Column(b, x) == List([y \in 1..Len(b) |-> b[y][x]])

\* Faulty variant: the points of the last line processed replace the total
RowPoints_last_line_only(lines) == lines[Len(lines)].points

RowPoints(lines) == SumSeq(List([i \in 1..Len(lines) |-> lines[i].points]))
AnyMerged(lines) == \E i \in 1..Len(lines) : lines[i].merged

move_left(b, strategy, secondary) ==
    LET rows == List([y \in 1..Len(b) |->
                        process_line(b[y], strategy, secondary)])
    IN  [board |-> List([y \in 1..Len(b) |-> rows[y].result]),
         points |-> RowPoints(rows), merged |-> AnyMerged(rows)]

\* Faulty variant: the processed rows are not reversed back
move_right_not_reversed_back(b, strategy, secondary) ==
    LET rows == List([y \in 1..Len(b) |->
                        process_line(Reverse(b[y]), strategy, secondary)])
    IN  [board |-> List([y \in 1..Len(b) |-> rows[y].result]),
         points |-> RowPoints(rows), merged |-> AnyMerged(rows)]

move_right(b, strategy, secondary) ==
    LET rows == List([y \in 1..Len(b) |->
                        process_line(Reverse(b[y]), strategy, secondary)])
    IN  [board |-> List([y \in 1..Len(b) |-> Reverse(rows[y].result)]),
         points |-> RowPoints(rows), merged |-> AnyMerged(rows)]

move_up(b, strategy, secondary) ==
    LET cols == List([x \in 1..Len(b[1]) |->
                        process_line(Column(b, x), strategy, secondary)])
    IN  [board |-> List([y \in 1..Len(b) |->
                       List([x \in 1..Len(b[1]) |-> cols[x].result[y]])]),
         points |-> RowPoints(cols), merged |-> AnyMerged(cols)]

move_down(b, strategy, secondary) ==
    LET cols == List([x \in 1..Len(b[1]) |->
                        process_line(Reverse(Column(b, x)),
                                     strategy, secondary)])
        new_columns == List([x \in 1..Len(b[1]) |->
                               Reverse(cols[x].result)])
    IN  [board |-> List([y \in 1..Len(b) |->
                       List([x \in 1..Len(b[1]) |-> new_columns[x][y]])]),
         points |-> RowPoints(cols), merged |-> AnyMerged(cols)]

(***************************************************************************)
(* Game._execute_move                                                      *)
(***************************************************************************)
execute_move(b, direction, strategy, secondary) ==
    CASE direction = "left"  -> move_left(b, strategy, secondary)
      [] direction = "right" -> move_right(b, strategy, secondary)
      [] direction = "up"    -> move_up(b, strategy, secondary)
      [] direction = "down"  -> move_down(b, strategy, secondary)
      [] OTHER -> [board |-> b, points |-> 0, merged |-> FALSE]

(***************************************************************************)
(* Game.check_win and Game.check_game_over as predicates of a board.       *)
(***************************************************************************)
check_win(b) ==
    \E y \in 1..Len(b) : \E x \in 1..Len(b[y]) : b[y][x] >= win_value

\* Faulty variant: only horizontal neighbours are compared
check_game_over_rows_only(b) ==
    \A y \in 1..size_y : \A x \in 1..size_x :
        /\ b[y][x] # 0
        /\ ~(x < size_x /\ b[y][x] = b[y][x + 1])

\* Faulty variant: a full board is over whatever its neighbours
check_game_over_full_board_only(b) ==
    \A y \in 1..size_y : \A x \in 1..size_x : b[y][x] # 0

check_game_over(b) ==
    \A y \in 1..size_y : \A x \in 1..size_x :
        /\ b[y][x] # 0
        /\ ~(x < size_x /\ b[y][x] = b[y][x + 1])
        /\ ~(y < size_y /\ b[y][x] = b[y + 1][x])

(***************************************************************************)
(* Game.add_random_tile: the boards one call can leave (the board itself   *)
(* when no cell is empty), and n calls in a row as in init_game and        *)
(* handle_move, which stops at the first call that finds the board full:   *)
(* the calls fill min(n, empty cells) distinct empty cells, any of them,   *)
(* each with any of the spawn values.                                      *)
(***************************************************************************)
empty_cells(b) ==
    {c \in (1..size_y) \X (1..size_x) : b[c[1]][c[2]] = 0}

add_random_tile(b) ==
    IF empty_cells(b) = {} THEN {b}
    ELSE {[b EXCEPT ![c[1]][c[2]] = v] :
            c \in empty_cells(b), v \in new_tile_values}

Min(a, b) == IF a < b THEN a ELSE b

RECURSIVE SubsetsOfSize(_, _)
SubsetsOfSize(S, k) ==
    IF k = 0 THEN {{}}
    ELSE IF Cardinality(S) < k THEN {}
    ELSE IF Cardinality(S) = k THEN {S}
    ELSE LET c == CHOOSE c \in S : TRUE
         IN  {T \cup {c} : T \in SubsetsOfSize(S \ {c}, k - 1)}
                \cup SubsetsOfSize(S \ {c}, k)

\* Faulty variant: the spawn loop stops after its first tile
add_random_tiles_one_only(b, n) ==
    LET k == Min(Min(n, 1), Cardinality(empty_cells(b)))
    IN  {List([y \in 1..size_y |-> List([x \in 1..size_x |->
            IF <<y, x>> \in cells THEN val[<<y, x>>] ELSE b[y][x]])]) :
         <<cells, val>> \in
            UNION {{<<c, v>> : v \in [c -> new_tile_values]} :
                   c \in SubsetsOfSize(empty_cells(b), k)}}

\* Faulty variant: no tile is spawned unless all n tiles find a cell
add_random_tiles_all_or_none(b, n) ==
    LET k == IF n <= Cardinality(empty_cells(b)) THEN n ELSE 0
    IN  {List([y \in 1..size_y |-> List([x \in 1..size_x |->
            IF <<y, x>> \in cells THEN val[<<y, x>>] ELSE b[y][x]])]) :
         <<cells, val>> \in
            UNION {{<<c, v>> : v \in [c -> new_tile_values]} :
                   c \in SubsetsOfSize(empty_cells(b), k)}}

add_random_tiles(b, n) ==
    LET k == Min(n, Cardinality(empty_cells(b)))
    IN  {List([y \in 1..size_y |-> List([x \in 1..size_x |->
            IF <<y, x>> \in cells THEN val[<<y, x>>] ELSE b[y][x]])]) :
         <<cells, val>> \in
            UNION {{<<c, v>> : v \in [c -> new_tile_values]} :
                   c \in SubsetsOfSize(empty_cells(b), k)}}

(***************************************************************************)
(* Messages: the text and the numbers formatted into it.                   *)
(***************************************************************************)
Msg(text) == <<text, 0, 0>>
MsgStarted == Msg("Game started!")
MsgInvalidMove == Msg("Invalid move! No tiles can move in that direction.")
MsgMoveOk == Msg("Move successful!")
MsgStreakReset == Msg("Move successful! (no merges, streak reset)")
MsgStreak(s, bonus) == <<"Move successful! Streak", s, bonus>>
MsgWon == Msg("Congratulations! You've reached the target tile!")
MsgOver == Msg("No more valid moves! Game Over!")
MsgRedoDisabled == Msg("Redo is disabled!")
MsgNoRedosLeft == Msg("No redos left!")
MsgNoHistory == Msg("No moves to redo!")
MsgUndone(used, max) == <<"Move undone! Redos used", used, max>>
NoMessage == <<>>

(***************************************************************************)
(* Game.get_state_copy: the snapshot of the state dictionary.              *)
(***************************************************************************)
\* Faulty variant: the copy records the move count before the move
get_state_copy_stale_moves_count(b, sc, st, mult, ov, wn, msg, mc, mh) ==
    [board |-> b, score |-> sc, streak |-> st, streak_multiplier |-> mult,
     over |-> ov, won |-> wn, display_message |-> msg,
     moves_count |-> IF mc > 0 THEN mc - 1 ELSE mc,
     move_history |-> mh]

get_state_copy(b, sc, st, mult, ov, wn, msg, mc, mh) ==
    [board |-> b, score |-> sc, streak |-> st, streak_multiplier |-> mult,
     over |-> ov, won |-> wn, display_message |-> msg, moves_count |-> mc,
     move_history |-> mh]

(***************************************************************************)
(* Game.save_state_to_history: a copy of the state is appended; the        *)
(* entries already stored are separate objects and stay as they are.       *)
(***************************************************************************)
\* Faulty variant: the entry on top shares its board with the live state
save_state_to_history_shared_board(hist, copy) ==
    Append([hist EXCEPT ![Len(hist)].board = copy.board], copy)

\* Faulty variant: the copy replaces the entry on top
save_state_to_history_replaces_top(hist, copy) ==
    Append(SubSeq(hist, 1, Len(hist) - 1), copy)

save_state_to_history(hist, copy) == Append(hist, copy)

(***************************************************************************)
(* Python floats are IEEE 754 doubles: a mantissa m of MANTISSA_BITS bits  *)
(* and an exponent e, the value being m * 2^e.  The mantissa is a list of  *)
(* limbs, least significant first, each below LIMB; every operation rounds *)
(* its exact result to the nearest double, ties to even.                   *)
(***************************************************************************)
MANTISSA_BITS == 53
LIMB_BITS == 14
LIMB == 2^LIMB_BITS

RECURSIVE big_normal(_)
big_normal(n) ==
    IF n # <<>> /\ n[Len(n)] = 0 THEN big_normal(SubSeq(n, 1, Len(n) - 1))
    ELSE n

RECURSIVE big_times(_, _, _)
big_times(n, k, carry) ==
    IF n = <<>>
    THEN (IF carry = 0 THEN <<>>
          ELSE <<carry % LIMB>> \o big_times(n, k, carry \div LIMB))
    ELSE LET t == Head(n) * k + carry
         IN  <<t % LIMB>> \o big_times(Tail(n), k, t \div LIMB)

RECURSIVE big_increment(_)
big_increment(n) ==
    IF n = <<>> THEN <<1>>
    ELSE IF Head(n) + 1 < LIMB THEN <<Head(n) + 1>> \o Tail(n)
    ELSE <<0>> \o big_increment(Tail(n))

bit_length(v) ==
    CHOOSE b \in 0..31 : (b = 0 \/ 2^(b - 1) <= v) /\ (b = 31 \/ v < 2^b)

big_bit_length(n) ==
    IF n = <<>> THEN 0
    ELSE LIMB_BITS * (Len(n) - 1) + bit_length(n[Len(n)])

\* n shifted right by d bits, 0 <= d < LIMB_BITS
big_shift_right(n, d) ==
    big_normal(List([i \in 1..Len(n) |->
        (n[i] \div 2^d)
        + (IF i < Len(n) THEN (n[i + 1] % 2^d) * 2^(LIMB_BITS - d)
           ELSE 0)]))

RECURSIVE big_shift_right_any(_, _)
big_shift_right_any(n, d) ==
    IF n = <<>> THEN n
    ELSE IF d >= LIMB_BITS THEN big_shift_right_any(Tail(n), d - LIMB_BITS)
    ELSE big_shift_right(n, d)

RECURSIVE big_to_int(_)
big_to_int(n) == IF n = <<>> THEN 0 ELSE Head(n) + LIMB * big_to_int(Tail(n))

\* n * 2^e rounded to the nearest double, ties to even; inexact tells that
\* n already lost a nonzero part below its last bit
round_to_double(n, e, inexact) ==
    LET drop == big_bit_length(n) - MANTISSA_BITS
    IN  IF drop <= 0 THEN [m |-> n, e |-> e]
        ELSE LET lost == n[1] % 2^drop
                 half == 2^(drop - 1)
                 kept == big_shift_right(n, drop)
                 up == \/ lost > half
                       \/ lost = half /\ (inexact \/ kept[1] % 2 = 1)
                 r == IF up THEN big_increment(kept) ELSE kept
             IN  IF big_bit_length(r) > MANTISSA_BITS
                 THEN [m |-> big_shift_right(r, 1), e |-> e + drop + 1]
                 ELSE [m |-> r, e |-> e + drop]

\* the limbs of floor(r * LIMB^count / d), least significant first, r < d
RECURSIVE quotient_limbs(_, _, _)
quotient_limbs(r, d, count) ==
    IF count = 0 THEN [limbs |-> <<>>, rest |-> r]
    ELSE LET q == quotient_limbs((r * LIMB) % d, d, count - 1)
         IN  [limbs |-> q.limbs \o <<(r * LIMB) \div d>>, rest |-> q.rest]

\* n / d (true division of two ints) for 0 < n <= d <= 100
float_div(n, d) ==
    LET s == CHOOSE s \in 0..7 :
                n * 2^s >= d /\ (s = 0 \/ n * 2^(s - 1) < d)
        bits == MANTISSA_BITS + s     \* floor(n * 2^bits / d) has 54 bits
        first == n * 2^(bits % LIMB_BITS)
        q == quotient_limbs(first % d, d, bits \div LIMB_BITS)
    IN  round_to_double(big_normal(q.limbs \o <<first \div d>>),
                        -bits, q.rest # 0)

\* f * k for a double f > 0 and an int k > 0
float_times_int(f, k) == round_to_double(big_times(f.m, k, 0), f.e, FALSE)

\* int(f) for a double f > 0
float_to_int(f) ==
    IF f.e >= 0 THEN big_to_int(f.m) * 2^f.e
    ELSE big_to_int(big_shift_right_any(f.m, -f.e))

(***************************************************************************)
(* The streak bonus of handle_move,                                        *)
(*   int(points_earned * (streak_bonus_percent / 100) * streak),           *)
(* evaluated left to right in doubles as Python does, and the multiplier   *)
(* 1 + streak * percent / 100, kept in hundredths.                         *)
(***************************************************************************)
streak_bonus(points, st) ==
    IF points = 0 \/ streak_bonus_percent = 0 \/ st = 0 THEN 0
    ELSE float_to_int(float_times_int(
            float_times_int(float_div(streak_bonus_percent, 100), points),
            st))
multiplier_of(st) == 100 + st * streak_bonus_percent

(***************************************************************************)
(* The end-of-command evaluation of process_command for a move command:    *)
(* check_win first, check_game_over only when check_win is false.          *)
(***************************************************************************)
\* Faulty variant: check_game_over runs whether or not check_win succeeded
end_of_move_checks_both(b, wn, ov, msg) ==
    [won |-> wn \/ check_win(b), over |-> ov \/ check_game_over(b),
     display_message |-> IF check_game_over(b) THEN MsgOver
                         ELSE IF check_win(b) THEN MsgWon ELSE msg,
     game_ended |-> check_win(b) \/ check_game_over(b)]

\* Faulty variant: check_game_over is evaluated before check_win
end_of_move_over_first(b, wn, ov, msg) ==
    IF check_game_over(b)
    THEN [won |-> wn, over |-> TRUE, display_message |-> MsgOver,
          game_ended |-> TRUE]
    ELSE IF check_win(b)
    THEN [won |-> TRUE, over |-> ov, display_message |-> MsgWon,
          game_ended |-> TRUE]
    ELSE [won |-> wn, over |-> ov, display_message |-> msg,
          game_ended |-> FALSE]

end_of_move(b, wn, ov, msg) ==
    IF check_win(b)
    THEN [won |-> TRUE, over |-> ov, display_message |-> MsgWon,
          game_ended |-> TRUE]
    ELSE IF check_game_over(b)
    THEN [won |-> wn, over |-> TRUE, display_message |-> MsgOver,
          game_ended |-> TRUE]
    ELSE [won |-> wn, over |-> ov, display_message |-> msg,
          game_ended |-> FALSE]

(***************************************************************************)
(* Game.init_game: the reset state with initial_tiles tiles placed, and    *)
(* one snapshot of it in the history.                                      *)
(***************************************************************************)
\* Faulty variant: the redo counter survives the restart
init_game_keeps_redos_used(cmd) ==
    \E b \in add_random_tiles(List([y \in 1..size_y |-> Zeros(size_x)]),
                              initial_tiles) :
        /\ board' = b
        /\ score' = 0
        /\ streak' = 0
        /\ streak_multiplier' = 100
        /\ over' = FALSE
        /\ won' = FALSE
        /\ display_message' = MsgStarted
        /\ moves_count' = 0
        /\ move_history' = <<>>
        /\ redos_used' = redos_used
        /\ history' = <<get_state_copy(b, 0, 0, 100, FALSE, FALSE,
                                       MsgStarted, 0, <<>>)>>
        /\ response' = [command |-> cmd, success |-> TRUE,
                        game_ended |-> FALSE, error_message |-> NoMessage]

init_game(cmd) ==
    \E b \in add_random_tiles(List([y \in 1..size_y |-> Zeros(size_x)]),
                              initial_tiles) :
        /\ board' = b
        /\ score' = 0
        /\ streak' = 0
        /\ streak_multiplier' = 100
        /\ over' = FALSE
        /\ won' = FALSE
        /\ display_message' = MsgStarted
        /\ moves_count' = 0
        /\ move_history' = <<>>
        /\ redos_used' = 0
        /\ history' = <<get_state_copy(b, 0, 0, 100, FALSE, FALSE,
                                       MsgStarted, 0, <<>>)>>
        /\ response' = [command |-> cmd, success |-> TRUE,
                        game_ended |-> FALSE, error_message |-> NoMessage]

(***************************************************************************)
(* Game.handle_move's validity test: the board after _execute_move differs *)
(* from the copy taken before it.                                          *)
(***************************************************************************)
\* Faulty variant: a move counts as valid only when something merged
move_is_valid_if_merged(before, moved) == moved.merged

move_is_valid(before, moved) == moved.board # before

(***************************************************************************)
(* The MoveHistoryEntry handle_move appends (its timestamp left out): it   *)
(* is built before the streak is updated and before tiles are spawned.     *)
(***************************************************************************)
move_entry(mc, direction, moved, st) ==
    [move_number |-> mc, direction |-> direction,
     points_earned |-> moved.points, merge_occurred |-> moved.merged,
     streak_after_move |-> st, board_state |-> moved.board]

(***************************************************************************)
(* The streak, score, multiplier and message handle_move leaves.           *)
(***************************************************************************)
\* Faulty variant: the streak is counted although streaks are disabled
streak_after_always_counts(st, moved) ==
    IF moved.merged THEN st + 1 ELSE 0

\* Faulty variant: a move without a merge leaves the streak as it is
streak_after_never_broken(st, moved) ==
    IF use_streak /\ moved.merged THEN st + 1 ELSE st

streak_after(st, moved) ==
    IF use_streak THEN (IF moved.merged THEN st + 1 ELSE 0) ELSE st

score_after(sc, st, moved) ==
    sc + moved.points
       + (IF use_streak /\ moved.merged
          THEN streak_bonus(moved.points, st + 1) ELSE 0)

\* Faulty variant: a move without a merge leaves the multiplier as it was
multiplier_after_not_reset(mult, st, moved) ==
    IF use_streak
    THEN (IF moved.merged THEN multiplier_of(st + 1) ELSE mult)
    ELSE mult

multiplier_after(mult, st, moved) ==
    IF use_streak
    THEN (IF moved.merged THEN multiplier_of(st + 1) ELSE 100)
    ELSE mult

message_after(st, moved) ==
    IF use_streak
    THEN (IF moved.merged
          THEN MsgStreak(st + 1, streak_bonus(moved.points, st + 1))
          ELSE MsgStreakReset)
    ELSE MsgMoveOk

(***************************************************************************)
(* process_command(direction): Game.handle_move, then the evaluation of    *)
(* check_win / check_game_over that follows every move command.            *)
(***************************************************************************)
MoveRejected(direction) ==
    /\ board' = board
    /\ UNCHANGED <<score, streak, streak_multiplier, moves_count,
                   move_history, redos_used, history, config>>
    /\ LET end == end_of_move(board, won, over, MsgInvalidMove)
       IN  /\ won' = end.won
           /\ over' = end.over
           /\ display_message' = end.display_message
           /\ response' = [command |-> direction, success |-> FALSE,
                           game_ended |-> end.game_ended,
                           error_message |-> MsgInvalidMove]

MoveAccepted(direction, moved) ==
    /\ moves_count < MaxMoves
    /\ \E b \in add_random_tiles(moved.board, random_new_tiles) :
        LET mc == moves_count + 1
            sc == score_after(score, streak, moved)
            st == streak_after(streak, moved)
            mult == multiplier_after(streak_multiplier, streak, moved)
            msg == message_after(streak, moved)
            mh == Append(move_history,
                         move_entry(mc, direction, moved, streak))
            end == end_of_move(b, won, over, msg)
        IN  /\ board' = b
            /\ score' = sc
            /\ streak' = st
            /\ streak_multiplier' = mult
            /\ moves_count' = mc
            /\ move_history' = mh
            /\ history' = save_state_to_history(history,
                            get_state_copy(b, sc, st, mult, over, won,
                                           msg, mc, mh))
            /\ won' = end.won
            /\ over' = end.over
            /\ display_message' = end.display_message
            /\ response' = [command |-> direction, success |-> TRUE,
                            game_ended |-> end.game_ended,
                            error_message |-> NoMessage]
    /\ UNCHANGED <<redos_used, config>>

Move(direction) ==
    \E moved \in {execute_move(board, direction, merge_strategy,
                               allow_secondary_merge)} :
        IF move_is_valid(board, moved)
        THEN MoveAccepted(direction, moved)
        ELSE MoveRejected(direction)

(***************************************************************************)
(* Game.handle_redo: the three rejections in the order the code tests      *)
(* them, "" when the redo goes ahead.                                      *)
(***************************************************************************)
\* Faulty variant: the history is tested before the limit
redo_rejection_history_first(mr, used, hist) ==
    IF mr = 0 THEN MsgRedoDisabled
    ELSE IF Len(hist) <= 1 THEN MsgNoHistory
    ELSE IF used >= mr /\ mr # -1 THEN MsgNoRedosLeft
    ELSE NoMessage

\* Faulty variant: the first move cannot be taken back
redo_rejection_keeps_first_move(mr, used, hist) ==
    IF mr = 0 THEN MsgRedoDisabled
    ELSE IF used >= mr /\ mr # -1 THEN MsgNoRedosLeft
    ELSE IF Len(hist) <= 2 THEN MsgNoHistory
    ELSE NoMessage

\* Faulty variant: the limit is tested with > instead of >=
redo_rejection_one_too_many(mr, used, hist) ==
    IF mr = 0 THEN MsgRedoDisabled
    ELSE IF used > mr /\ mr # -1 THEN MsgNoRedosLeft
    ELSE IF Len(hist) <= 1 THEN MsgNoHistory
    ELSE NoMessage

redo_rejection(mr, used, hist) ==
    IF mr = 0 THEN MsgRedoDisabled
    ELSE IF used >= mr /\ mr # -1 THEN MsgNoRedosLeft
    ELSE IF Len(hist) <= 1 THEN MsgNoHistory
    ELSE NoMessage

(***************************************************************************)
(* The history after the pop of handle_redo and the state restore_state    *)
(* makes live: the new top.                                                *)
(***************************************************************************)
\* Faulty variant: the current entry is not popped
history_after_redo_without_pop(hist) == hist

\* Faulty variant: the score is not restored
restored_state_keeps_score(hist) ==
    [hist[Len(hist) - 1] EXCEPT !.score = hist[Len(hist)].score]

\* Faulty variant: the move log is not restored
restored_state_keeps_move_history(hist) ==
    [hist[Len(hist) - 1] EXCEPT !.move_history = hist[Len(hist)].move_history]

history_after_redo(hist) == SubSeq(hist, 1, Len(hist) - 1)
restored_state(hist) == hist[Len(hist) - 1]

RedoRejected ==
    /\ redo_rejection(max_redo, redos_used, history) # NoMessage
    /\ display_message' = redo_rejection(max_redo, redos_used, history)
    /\ response' = [command |-> "redo", success |-> FALSE,
                    game_ended |-> FALSE,
                    error_message |->
                        redo_rejection(max_redo, redos_used, history)]
    /\ UNCHANGED <<board, score, streak, streak_multiplier, over, won,
                   moves_count, move_history, redos_used, history, config>>

RedoDone ==
    /\ redo_rejection(max_redo, redos_used, history) = NoMessage
    /\ redos_used < MaxRedos
    /\ LET previous_state == restored_state(history)
       IN  /\ history' = history_after_redo(history)
           /\ board' = previous_state.board
           /\ score' = previous_state.score
           /\ streak' = previous_state.streak
           /\ streak_multiplier' = previous_state.streak_multiplier
           /\ over' = previous_state.over
           /\ won' = previous_state.won
           /\ moves_count' = previous_state.moves_count
           /\ move_history' = previous_state.move_history
    /\ redos_used' = redos_used + 1
    /\ display_message' = MsgUndone(redos_used + 1, max_redo)
    /\ response' = [command |-> "redo", success |-> TRUE,
                    game_ended |-> FALSE, error_message |-> NoMessage]
    /\ UNCHANGED config

Redo == IF redo_rejection(max_redo, redos_used, history) # NoMessage
        THEN RedoRejected ELSE RedoDone

(***************************************************************************)
(* process_command("restart"): Game.init_game on the same configuration.   *)
(***************************************************************************)
Restart == init_game("restart") /\ UNCHANGED config

(***************************************************************************)
(* The configurations a game is constructed with, and the state after      *)
(* Game.__init__.  Both families are constructed in test mode              *)
(* (Game(config, test_mode=True), as the test suite does), where           *)
(* validate_config does not limit initial_tiles and random_new_tiles to    *)
(* half the board: every accepted move then refills the board, so full     *)
(* boards, wins and boards without a legal move are a few moves away.      *)
(* FullBoardStart begins on a full board; SingleTileStart begins with one  *)
(* tile, so that its first move only slides.                               *)
(***************************************************************************)
MaxRedoValues == {-1, 0, 1, 2}

FullBoardStart ==
    /\ initial_tiles = size_x * size_y
    /\ random_new_tiles = size_x * size_y
    /\ win_value \in {8, 16}
    /\ merge_strategy \in MergeStrategies
    /\ allow_secondary_merge \in BOOLEAN
    /\ max_redo \in MaxRedoValues
    /\ use_streak \in BOOLEAN
    /\ streak_bonus_percent = 10

SingleTileStart ==
    /\ initial_tiles = 1
    /\ random_new_tiles = size_x * size_y
    /\ win_value = 8
    /\ merge_strategy \in MergeStrategies
    /\ allow_secondary_merge \in BOOLEAN
    /\ max_redo = -1
    /\ use_streak \in BOOLEAN
    /\ streak_bonus_percent = 10

new_game ==
    \E b \in add_random_tiles(List([y \in 1..size_y |-> Zeros(size_x)]),
                              initial_tiles) :
        /\ board = b
        /\ score = 0
        /\ streak = 0
        /\ streak_multiplier = 100
        /\ over = FALSE
        /\ won = FALSE
        /\ display_message = MsgStarted
        /\ moves_count = 0
        /\ move_history = <<>>
        /\ redos_used = 0
        /\ history = <<get_state_copy(b, 0, 0, 100, FALSE, FALSE,
                                      MsgStarted, 0, <<>>)>>
        /\ response = [command |-> "new-game", success |-> TRUE,
                       game_ended |-> FALSE, error_message |-> NoMessage]

Init == (FullBoardStart \/ SingleTileStart) /\ new_game

Next ==
    \/ \E direction \in Directions : Move(direction)
    \/ Redo
    \/ Restart

Spec == Init /\ [][Next]_vars

(***************************************************************************)
(* The merge functions called on their own, as the unit tests call them on *)
(* a test-mode game that starts with an empty board and spawns nothing:    *)
(* game._process_line(line) on a line of any length, and a board assigned  *)
(* to game.board followed by game._execute_move(direction).  Neither call  *)
(* touches the score, the history or the flags.  Each test makes its one   *)
(* call on a freshly constructed game.  The boards assigned hold tiles in  *)
(* their first two rows or in their first two columns.                     *)
(***************************************************************************)
MaxLineLen == 4
LineValues == {0, 2, 4, 8}
BoardValues == {0, 2, 4}

RECURSIVE LinesOfLen(_)
LinesOfLen(n) ==
    IF n = 0 THEN {<<>>}
    ELSE {Append(l, v) : l \in LinesOfLen(n - 1), v \in LineValues}

TestLines == UNION {LinesOfLen(n) : n \in 1..MaxLineLen}
Transposed(b) ==
    List([y \in 1..Len(b[1]) |-> List([x \in 1..Len(b) |-> b[x][y]])])

TestRows == {List(r) : r \in [1..size_x -> BoardValues]}
TwoRowBoards == {<<r1, r2, Zeros(size_x)>> : r1 \in TestRows, r2 \in TestRows}
TestBoards == TwoRowBoards \cup {Transposed(b) : b \in TwoRowBoards}

FreshGame == response.command = "new-game"

EmptyBoardStart ==
    /\ initial_tiles = 0
    /\ random_new_tiles = 0
    /\ win_value = 2048
    /\ merge_strategy \in MergeStrategies
    /\ allow_secondary_merge \in BOOLEAN
    /\ max_redo = -1
    /\ use_streak = TRUE
    /\ streak_bonus_percent = 10

ProcessLineCall ==
    /\ FreshGame
    /\ \E line \in TestLines :
        LET r == process_line(line, merge_strategy, allow_secondary_merge)
        IN  response' = [command |-> "_process_line", line |-> line,
                         new_line |-> r.result, points_earned |-> r.points,
                         merge_occurred |-> r.merged]
    /\ UNCHANGED <<state, redos_used, history, config>>

ExecuteMoveCall(direction) ==
    /\ FreshGame
    /\ \E b \in TestBoards :
        LET moved == execute_move(b, direction, merge_strategy,
                                  allow_secondary_merge)
        IN  /\ board' = moved.board
            /\ response' = [command |-> "_execute_move",
                            direction |-> direction, board |-> b,
                            points_earned |-> moved.points,
                            merge_occurred |-> moved.merged]
    /\ UNCHANGED <<score, streak, streak_multiplier, over, won,
                   display_message, moves_count, move_history,
                   redos_used, history, config>>

MergeInit == EmptyBoardStart /\ new_game

MergeNext ==
    \/ ProcessLineCall
    \/ \E direction \in Directions : ExecuteMoveCall(direction)

MergeSpec == MergeInit /\ [][MergeNext]_vars

(***************************************************************************)
(* Games played from an assigned board, as the streak tests play them: a   *)
(* test-mode game constructed with initial_tiles = 0 and                   *)
(* random_new_tiles = 0, whose board the test then fills cell by cell      *)
(* (the snapshot taken by init_game keeps the empty board), followed by    *)
(* commands.  Nothing is spawned, so a move may slide without merging      *)
(* after a streak was built.                                               *)
(***************************************************************************)
StreakPercents == {10, 29}

AssignedBoards ==
    { <<<<2, 2, 0>>, <<0, 0, 0>>, <<0, 0, 0>>>>,
      <<<<2, 2, 2>>, <<2, 2, 2>>, <<4, 4, 0>>>>,
      <<<<40, 40, 0>>, <<10, 10, 0>>, <<0, 0, 0>>>> }

AssignedBoardStart ==
    /\ initial_tiles = 0
    /\ random_new_tiles = 0
    /\ win_value = 2048
    /\ merge_strategy \in MergeStrategies
    /\ allow_secondary_merge = FALSE
    /\ max_redo = -1
    /\ use_streak \in BOOLEAN
    /\ streak_bonus_percent \in StreakPercents

set_board ==
    \E b \in AssignedBoards :
        /\ board = b
        /\ score = 0
        /\ streak = 0
        /\ streak_multiplier = 100
        /\ over = FALSE
        /\ won = FALSE
        /\ display_message = MsgStarted
        /\ moves_count = 0
        /\ move_history = <<>>
        /\ redos_used = 0
        /\ history = <<get_state_copy(
                          List([y \in 1..size_y |-> Zeros(size_x)]),
                          0, 0, 100, FALSE, FALSE, MsgStarted, 0, <<>>)>>
        /\ response = [command |-> "new-game", success |-> TRUE,
                       game_ended |-> FALSE, error_message |-> NoMessage]

StreakInit == AssignedBoardStart /\ set_board

StreakSpec == StreakInit /\ [][Next]_vars

(***************************************************************************)
(* Game.get_ai_context's available-moves probe, as GET /game-state runs it *)
(* through get_frontend_response: for each direction in the order up,      *)
(* down, left, right it copies the board, runs _execute_move on the live   *)
(* board, compares, and assigns the copy back to the live board.           *)
(***************************************************************************)
ProbeOrder == <<"up", "down", "left", "right">>

\* Faulty variant: the copy is not assigned back after the trial move
probe_direction_not_restored(b, direction) ==
    LET original_board == b
        moved == execute_move(b, direction, merge_strategy,
                              allow_secondary_merge)
    IN  [available |-> moved.board # original_board, board |-> moved.board]

probe_direction(b, direction) ==
    LET original_board == b
        moved == execute_move(b, direction, merge_strategy,
                              allow_secondary_merge)
    IN  [available |-> moved.board # original_board, board |-> original_board]

RECURSIVE probe_from(_, _)
probe_from(b, i) ==
    IF i > Len(ProbeOrder) THEN [available_moves |-> <<>>, board |-> b]
    ELSE LET one == probe_direction(b, ProbeOrder[i])
             rest == probe_from(one.board, i + 1)
         IN  [available_moves |->
                 (IF one.available THEN <<ProbeOrder[i]>> ELSE <<>>)
                     \o rest.available_moves,
              board |-> rest.board]

get_ai_context(b) == probe_from(b, 1)

GetGameState ==
    /\ \E context \in {get_ai_context(board)} :
        /\ board' = context.board
        /\ response' = [command |-> "game-state", success |-> TRUE,
                        available_moves |-> context.available_moves]
    /\ UNCHANGED <<score, streak, streak_multiplier, over, won,
                   display_message, moves_count, move_history,
                   redos_used, history, config>>

ProbeNext ==
    \/ \E direction \in Directions : Move(direction)
    \/ Redo
    \/ Restart
    \/ GetGameState

ProbeSpec == Init /\ [][ProbeNext]_vars

(***************************************************************************)
(* Games in which a move may leave fewer empty cells than tiles to spawn:  *)
(* test-mode games that start on a full board and spawn two tiles per      *)
(* move, or start with one tile and refill the board on every move.        *)
(* game.add_random_tile() is also called on its own on the freshly         *)
(* constructed game, as the unit tests call it; it returns whether it      *)
(* found an empty cell.                                                    *)
(***************************************************************************)
PartialSpawnStart ==
    /\ \/ initial_tiles = size_x * size_y /\ random_new_tiles = 2
       \/ initial_tiles = 1 /\ random_new_tiles = size_x * size_y
    /\ win_value = 16
    /\ merge_strategy \in MergeStrategies
    /\ allow_secondary_merge = FALSE
    /\ max_redo = -1
    /\ use_streak = FALSE
    /\ streak_bonus_percent = 10

add_random_tile_found(b) == empty_cells(b) # {}

AddRandomTileCall ==
    /\ FreshGame
    /\ \E b \in add_random_tile(board) :
        /\ board' = b
        /\ response' = [command |-> "add_random_tile", board |-> board,
                        returned |-> add_random_tile_found(board)]
    /\ UNCHANGED <<score, streak, streak_multiplier, over, won,
                   display_message, moves_count, move_history,
                   redos_used, history, config>>

SpawnInit == PartialSpawnStart /\ new_game

SpawnNext ==
    \/ \E direction \in Directions : Move(direction)
    \/ Redo
    \/ Restart
    \/ AddRandomTileCall

SpawnSpec == SpawnInit /\ [][SpawnNext]_vars

(***************************************************************************)
(* Construction: the request model validates itself when it is built       *)
(* (GameConfigurationRequest.validate_config; TestGameConfigurationRequest *)
(* overrides that validator by one that accepts everything), Game.__init__ *)
(* replaces a falsy win_target or new_tile_values by the default, and      *)
(* init_game calls Game.validate_config, which raises the first error it   *)
(* finds, before it resets anything.  Every field of a request holds a     *)
(* value (a field left out of the JSON body takes its default value).      *)
(***************************************************************************)
NoError == ""
RequestClasses == {"GameConfigurationRequest", "TestGameConfigurationRequest"}

\* GameConfigurationRequest.validate_config, in the order of its tests
request_error(class, r) ==
    IF class = "TestGameConfigurationRequest" THEN NoError
    ELSE IF r.win_target < 4 \/ r.win_target > 10000
    THEN "win_target must be between 4 and 10000"
    ELSE IF r.initial_tiles < 1
    THEN "initial_tiles must be at least 1"
    ELSE IF r.random_new_tiles < 1
    THEN "random_new_tiles must be at least 1"
    ELSE IF r.streak_bonus_percent < 0 \/ r.streak_bonus_percent > 100
    THEN "streak_bonus_percent must be between 0 and 100"
    ELSE IF r.max_redo < -1
    THEN "max_redo must be -1 or greater"
    ELSE IF r.number_of_hints < 0 \/ r.number_of_hints > 5
    THEN "number_of_hints must be between 0 and 5"
    ELSE IF r.new_tile_values = <<>>
    THEN "new_tile_values cannot be empty"
    ELSE IF \E i \in 1..Len(r.new_tile_values) :
                r.new_tile_values[i] < 1 \/ r.new_tile_values[i] > 10
    THEN "new_tile_values must be between 1 and 10"
    ELSE NoError

\* Game.__init__: the attributes read from the request
game_attributes(r) ==
    [size_x |-> r.board_size[1], size_y |-> r.board_size[2],
     win_value |-> IF r.win_target # 0 THEN r.win_target ELSE 2048,
     initial_tiles |-> r.initial_tiles,
     random_new_tiles |-> r.random_new_tiles,
     new_tile_values |-> IF r.new_tile_values # <<>> THEN r.new_tile_values
                         ELSE <<2, 4>>,
     max_redo |-> r.max_redo,
     merge_strategy |-> r.merge_strategy,
     allow_secondary_merge |-> r.allow_secondary_merge,
     use_streak |-> r.streak_enabled,
     streak_bonus_percent |-> r.streak_bonus_percent,
     number_of_hints |-> r.number_of_hints]

\* Faulty variant: the limits on the tile counts are skipped in every mode
validate_config_skips_tile_counts(g, test_mode) ==
    IF ~(3 <= g.size_x /\ g.size_x <= 12)
    THEN "size_x must be between 3 and 12"
    ELSE IF ~(3 <= g.size_y /\ g.size_y <= 12)
    THEN "size_y must be between 3 and 12"
    ELSE IF g.size_x * g.size_y < 9
    THEN "Board size must be at least 9 cells"
    ELSE IF ~(4 <= g.win_value /\ g.win_value <= 10000)
    THEN "win_value must be between 4 and 10000"
    ELSE IF ~(\A i \in 1..Len(g.new_tile_values) :
                g.new_tile_values[i] \in 1..10)
    THEN "new_tile_values must be between 1 and 10"
    ELSE IF Len(g.new_tile_values) = 0
    THEN "new_tile_values must contain at least one value"
    ELSE IF ~(g.max_redo >= -1)
    THEN "max_redo must be -1 (unlimited) or at least 0 (disabled)"
    ELSE IF ~(0 <= g.number_of_hints /\ g.number_of_hints <= 5)
    THEN "number_of_hints must be between 0 and 5"
    ELSE IF \E i \in 1..Len(g.new_tile_values) :
                g.new_tile_values[i] >= g.win_value
    THEN "All new tile values must be less than win condition"
    ELSE IF g.use_streak
            /\ ~(0 <= g.streak_bonus_percent /\ g.streak_bonus_percent <= 100)
    THEN "streak_bonus_percent must be between 0 and 100"
    ELSE NoError

\* Game.validate_config, in the order of its tests
validate_config(g, test_mode) ==
    IF ~(3 <= g.size_x /\ g.size_x <= 12)
    THEN "size_x must be between 3 and 12"
    ELSE IF ~(3 <= g.size_y /\ g.size_y <= 12)
    THEN "size_y must be between 3 and 12"
    ELSE IF g.size_x * g.size_y < 9
    THEN "Board size must be at least 9 cells"
    ELSE IF ~(4 <= g.win_value /\ g.win_value <= 10000)
    THEN "win_value must be between 4 and 10000"
    ELSE IF ~test_mode
            /\ ~(1 <= g.initial_tiles
                 /\ g.initial_tiles <= (g.size_x * g.size_y) \div 2)
    THEN "initial_tiles must be at least 1 and at most half of the board size"
    ELSE IF ~(\A i \in 1..Len(g.new_tile_values) :
                g.new_tile_values[i] \in 1..10)
    THEN "new_tile_values must be between 1 and 10"
    ELSE IF Len(g.new_tile_values) = 0
    THEN "new_tile_values must contain at least one value"
    ELSE IF ~test_mode
            /\ ~(1 <= g.random_new_tiles
                 /\ g.random_new_tiles <= (g.size_x * g.size_y) \div 2)
    THEN "random_new_tiles must be at least 1 and at most half of the board size"
    ELSE IF ~(g.max_redo >= -1)
    THEN "max_redo must be -1 (unlimited) or at least 0 (disabled)"
    ELSE IF ~(0 <= g.number_of_hints /\ g.number_of_hints <= 5)
    THEN "number_of_hints must be between 0 and 5"
    ELSE IF \E i \in 1..Len(g.new_tile_values) :
                g.new_tile_values[i] >= g.win_value
    THEN "All new tile values must be less than win condition"
    ELSE IF g.use_streak
            /\ ~(0 <= g.streak_bonus_percent /\ g.streak_bonus_percent <= 100)
    THEN "streak_bonus_percent must be between 0 and 100"
    ELSE NoError

\* building the request, then Game(request, test_mode): the error raised
construction_error(class, r, test_mode) ==
    IF request_error(class, r) # NoError THEN request_error(class, r)
    ELSE validate_config(game_attributes(r), test_mode)

(***************************************************************************)
(* The constructor called on its own, as the validation tests call it:     *)
(* the call returns a game or raises; the game of the model is another     *)
(* object and stays as it is.  The requests tried take each field from     *)
(* values at and around the limits.                                        *)
(***************************************************************************)
TestRequests ==
    [board_size : {<<2, 3>>, <<3, 3>>, <<12, 13>>},
     win_target : {0, 3, 4, 10000, 10001},
     initial_tiles : {0, 4, 5},
     random_new_tiles : {0, 4, 5},
     new_tile_values : {<<>>, <<0>>, <<2>>, <<4>>, <<2, 10>>, <<11>>},
     max_redo : {-2, -1, 0},
     merge_strategy : {"standard"},
     allow_secondary_merge : {FALSE},
     streak_enabled : BOOLEAN,
     streak_bonus_percent : {-1, 100, 101},
     number_of_hints : {-1, 5, 6}]

ConstructGame ==
    /\ FreshGame
    /\ \E class \in RequestClasses, r \in TestRequests, test_mode \in BOOLEAN :
        response' = [command |-> "Game", class |-> class, request |-> r,
                     test_mode |-> test_mode,
                     error |-> construction_error(class, r, test_mode)]
    /\ UNCHANGED <<state, redos_used, history, config>>

ConfigNext == ConstructGame

ConfigInit ==
    MergeInit /\ merge_strategy = "standard" /\ ~allow_secondary_merge

ConfigSpec == ConfigInit /\ [][ConfigNext]_vars

(***************************************************************************)
(* The server's POST /new-game: self.game = Game(config=config) inside a   *)
(* try block.  The request body is parsed into a GameConfigurationRequest  *)
(* and the game is constructed with test_mode false; when either raises,   *)
(* the assignment does not happen and the server keeps the game it had and *)
(* answers with the error.  The server's games are production games: one   *)
(* initial tile and one tile per move here.  The requests tried are the    *)
(* configuration of the running game itself and requests that break one    *)
(* constraint each.  Moves are taken up to move number MaxServerMoves.     *)
(***************************************************************************)
MaxServerMoves == 2

ProductionStart ==
    /\ initial_tiles = 1
    /\ random_new_tiles = 1
    /\ win_value = 8
    /\ merge_strategy = "standard"
    /\ allow_secondary_merge = FALSE
    /\ max_redo = 1
    /\ use_streak = TRUE
    /\ streak_bonus_percent = 10

ValidRequest ==
    [board_size |-> <<size_x, size_y>>, win_target |-> 8,
     initial_tiles |-> 1, random_new_tiles |-> 1, new_tile_values |-> <<2>>,
     max_redo |-> 1, merge_strategy |-> "standard",
     allow_secondary_merge |-> FALSE, streak_enabled |-> TRUE,
     streak_bonus_percent |-> 10, number_of_hints |-> 3]

ServerRequests ==
    { ValidRequest,
      [ValidRequest EXCEPT !.board_size = <<2, 3>>],
      [ValidRequest EXCEPT !.new_tile_values = <<8>>],
      [ValidRequest EXCEPT !.streak_bonus_percent = 101] }

\* Faulty variant: the running game is reset before the request is validated
NewGameRejected_after_reset(error) ==
    /\ score' = 0
    /\ streak' = 0
    /\ streak_multiplier' = 100
    /\ moves_count' = 0
    /\ move_history' = <<>>
    /\ redos_used' = 0
    /\ history' = <<>>
    /\ response' = [command |-> "new-game", success |-> FALSE,
                    game_ended |-> FALSE, error_message |-> Msg(error)]
    /\ UNCHANGED <<board, over, won, display_message, config>>

NewGameRejected(error) ==
    /\ response' = [command |-> "new-game", success |-> FALSE,
                    game_ended |-> FALSE, error_message |-> Msg(error)]
    /\ UNCHANGED <<state, redos_used, history, config>>

NewGameStarted(g) ==
    /\ \E b \in add_random_tiles(List([y \in 1..size_y |-> Zeros(size_x)]),
                                 g.initial_tiles) :
        /\ board' = b
        /\ history' = <<get_state_copy(b, 0, 0, 100, FALSE, FALSE,
                                       MsgStarted, 0, <<>>)>>
    /\ score' = 0
    /\ streak' = 0
    /\ streak_multiplier' = 100
    /\ over' = FALSE
    /\ won' = FALSE
    /\ display_message' = MsgStarted
    /\ moves_count' = 0
    /\ move_history' = <<>>
    /\ redos_used' = 0
    /\ win_value' = g.win_value
    /\ merge_strategy' = g.merge_strategy
    /\ allow_secondary_merge' = g.allow_secondary_merge
    /\ max_redo' = g.max_redo
    /\ use_streak' = g.use_streak
    /\ streak_bonus_percent' = g.streak_bonus_percent
    /\ initial_tiles' = g.initial_tiles
    /\ random_new_tiles' = g.random_new_tiles
    /\ response' = [command |-> "new-game", success |-> TRUE,
                    game_ended |-> FALSE, error_message |-> NoMessage]

NewGameRequest(r) ==
    LET error == construction_error("GameConfigurationRequest", r, FALSE)
    IN  IF error # NoError THEN NewGameRejected(error)
        ELSE NewGameStarted(game_attributes(r))

ServerInit == ProductionStart /\ new_game

ServerNext ==
    \/ \E direction \in Directions :
          moves_count < MaxServerMoves /\ Move(direction)
    \/ Redo
    \/ Restart
    \/ \E r \in ServerRequests : NewGameRequest(r)

ServerSpec == ServerInit /\ [][ServerNext]_vars

(***************************************************************************)
(* What the claims below read off a step: the command the step processed   *)
(* is the one recorded in the response it leaves.                          *)
(***************************************************************************)
IsMove(r) == r.command \in Directions
IsRedo(r) == r.command = "redo"
IsRestart(r) == r.command = "restart"
Top(hist) == hist[Len(hist)]
LastMove == move_history[Len(move_history)]

(***************************************************************************)
(* C1: a move command is accepted if and only if the board that            *)
(* _execute_move leaves differs from the board before it, whether or not   *)
(* anything merged, in every direction and under every merge              *)
(* configuration.                                                          *)
(***************************************************************************)
C1_AcceptedIffBoardChanges ==
    [][IsMove(response') =>
        (response'.success <=>
            execute_move(board, response'.command, merge_strategy,
                         allow_secondary_merge).board # board)]_vars

\* an accepted move that only slid tiles: nothing merged, no points
C1_SlideOnlyMoveAccepted ==
    /\ IsMove(response) /\ response.success
    /\ ~LastMove.merge_occurred /\ LastMove.points_earned = 0
    /\ moves_count = 1

(***************************************************************************)
(* C2: a rejected move command changes nothing but the message: board,     *)
(* score, streak, multiplier, move count, won / over, move log, history    *)
(* and the redo counter are the same before and after it.                  *)
(***************************************************************************)
C2_RejectedMoveChangesOnlyMessage ==
    [][(IsMove(response') /\ ~response'.success) =>
        UNCHANGED <<board, score, streak, streak_multiplier, moves_count,
                    won, over, move_history, history, redos_used>>]_vars

(***************************************************************************)
(* C3: redo is rejected as disabled whenever max_redo = 0; otherwise as    *)
(* limit reached when max_redo >= 1 and redos_used >= max_redo; otherwise  *)
(* as no history when the history holds one entry or fewer.  A rejected    *)
(* redo leaves board, score, streak, move count, flags, history and        *)
(* redos_used as they were.                                                *)
(***************************************************************************)
C3_RedoRejections ==
    [][IsRedo(response') =>
        LET rejected_as(msg) == /\ ~response'.success
                                /\ response'.error_message = msg
                                /\ display_message' = msg
            limit == max_redo >= 1 /\ redos_used >= max_redo
        IN  /\ (max_redo = 0) => rejected_as(MsgRedoDisabled)
            /\ (max_redo # 0 /\ limit) => rejected_as(MsgNoRedosLeft)
            /\ (max_redo # 0 /\ ~limit /\ Len(history) <= 1)
                    => rejected_as(MsgNoHistory)
            /\ (max_redo # 0 /\ ~limit /\ Len(history) > 1)
                    => response'.success
            /\ ~response'.success =>
                    UNCHANGED <<board, score, streak, streak_multiplier,
                                moves_count, won, over, move_history,
                                history, redos_used>>]_vars

\* a redo refused because the bounded allowance is used up, with history left
C3_RedoRefusedAtLimit ==
    /\ IsRedo(response) /\ ~response.success
    /\ response.error_message = MsgNoRedosLeft
    /\ max_redo >= 1 /\ redos_used = max_redo /\ Len(history) > 1

(***************************************************************************)
(* C4: a successful redo discards the top history entry and makes the new  *)
(* top live as a full rollback: board, score, streak, multiplier and move  *)
(* count all equal those of the state the undone move started from (which  *)
(* is what the entry below the top records), and redos_used grows by 1.    *)
(***************************************************************************)
C4_RedoIsFullRollback ==
    [][/\ (IsMove(response') /\ response'.success) =>
            LET below == history'[Len(history') - 1]
            IN  /\ below.board = board
                /\ below.score = score
                /\ below.streak = streak
                /\ below.streak_multiplier = streak_multiplier
                /\ below.moves_count = moves_count
       /\ (IsRedo(response') /\ response'.success) =>
            LET below == history[Len(history) - 1]
            IN  /\ history' = SubSeq(history, 1, Len(history) - 1)
                /\ Top(history') = below
                /\ board' = below.board
                /\ score' = below.score
                /\ streak' = below.streak
                /\ streak_multiplier' = below.streak_multiplier
                /\ moves_count' = below.moves_count
                /\ redos_used' = redos_used + 1]_vars

\* a redo that took back a move which had scored and raised the streak
C4_RedoUndidScoringMove ==
    /\ IsRedo(response) /\ response.success
    /\ use_streak /\ streak = 0 /\ score = 0 /\ moves_count = 0
    /\ board = history[1].board
    /\ empty_cells(board) = {}      \* so the undone move had merged

(***************************************************************************)
(* C5: with unlimited redo (max_redo = -1) every redo succeeds while an    *)
(* entry precedes the current one, k accepted moves take exactly k redos   *)
(* to undo (the history holds one entry per move made on top of the        *)
(* initial snapshot, which no move or redo alters), the last of them       *)
(* leaves board, score and move count equal to the initial snapshot, and   *)
(* the next redo is rejected as no history.                                *)
(***************************************************************************)
C5_UnlimitedRedoReturnsToStart ==
    [][max_redo = -1 =>
        /\ Len(history') = moves_count' + 1
        /\ ~IsRestart(response') => history'[1] = history[1]
        /\ IsRedo(response') =>
            IF Len(history) > 1
            THEN /\ response'.success
                 /\ Len(history') = Len(history) - 1
                 /\ Len(history') = 1 =>
                        /\ board' = history[1].board
                        /\ score' = history[1].score
                        /\ moves_count' = history[1].moves_count
                        /\ score' = 0 /\ moves_count' = 0
            ELSE /\ ~response'.success
                 /\ response'.error_message = MsgNoHistory
                 /\ UNCHANGED <<board, score, moves_count, history>>]_vars

\* three moves were made and three redos have brought the game back to the
\* initial snapshot
C5_ThreeRedosBackAtStart ==
    /\ max_redo = -1 /\ IsRedo(response) /\ response.success
    /\ redos_used = 3 /\ Len(history) = 1 /\ moves_count = 0
    /\ board = history[1].board

(***************************************************************************)
(* C6: with a bounded max_redo = n >= 1 the successful redos since the     *)
(* last init / restart never exceed n: redos_used counts them (+1 on each  *)
(* successful redo), no move and no redo lowers it, only restart resets    *)
(* it to 0, and once redos_used = n every redo is rejected, whatever moves *)
(* were made since.                                                        *)
(***************************************************************************)
C6_BoundedRedoNeverExceeded ==
    [][max_redo >= 1 =>
        /\ redos_used' <= max_redo
        /\ IsMove(response') => redos_used' = redos_used
        /\ IsRedo(response') =>
            /\ redos_used' = redos_used + (IF response'.success THEN 1 ELSE 0)
            /\ redos_used = max_redo => ~response'.success
        /\ IsRestart(response') => redos_used' = 0
        /\ redos_used' < redos_used => IsRestart(response')]_vars

\* the allowance of two is used up, a new move has been made, and the redo
\* asked for after it was refused
C6_NoRedoAfterNewMove ==
    /\ max_redo = 2 /\ redos_used = 2
    /\ IsRedo(response) /\ ~response.success
    /\ Len(history) > 1 /\ moves_count >= 1

(***************************************************************************)
(* C7: redo is one-directional.  The history grows only by the one push    *)
(* of an accepted move (and is reseeded with one entry by restart); a      *)
(* redo removes the top entry and adds none; each successful redo lowers   *)
(* the live move count by exactly 1, so redo commands alone never return   *)
(* to a state they discarded.                                              *)
(***************************************************************************)
C7_RedoOnlyWalksBack ==
    [][/\ IsRedo(response') =>
            IF response'.success
            THEN /\ history' = SubSeq(history, 1, Len(history) - 1)
                 /\ moves_count' = moves_count - 1
                 /\ Top(history').moves_count = moves_count'
            ELSE history' = history /\ moves_count' = moves_count
       /\ IsMove(response') =>
            IF response'.success
            THEN /\ Len(history') = Len(history) + 1
                 /\ SubSeq(history', 1, Len(history)) = history
            ELSE history' = history
       /\ IsRestart(response') => Len(history') = 1]_vars

\* two redos in a row have walked back two moves
C7_TwoRedosWalkedBack ==
    /\ IsRedo(response) /\ response.success
    /\ redos_used = 2 /\ moves_count = 1 /\ Len(history) = 2

(***************************************************************************)
(* C8: in every state reachable by move, redo and restart commands, won    *)
(* and over are never both true.                                           *)
(***************************************************************************)
C8_WonAndOverExclusive == ~(won /\ over)

\* a game that was lost: over is set on a board without a legal move
C8_GameLost ==
    /\ over /\ ~won /\ check_game_over(board)
    /\ IsMove(response) /\ response.success

(***************************************************************************)
(* C9: once won or over is true the state is terminal until restart: no    *)
(* move or redo command changes the board, the score, the move count or    *)
(* the two flags.                                                          *)
(***************************************************************************)
C9_TerminalUntilRestart ==
    [][((won \/ over) /\ ~IsRestart(response')) =>
        UNCHANGED <<board, score, moves_count, won, over>>]_vars

(***************************************************************************)
(* C10: win is evaluated before over after every move command: when a cell *)
(* is >= the win target the state is won and over is not set, also on a    *)
(* full board without two equal neighbours.                                *)
(***************************************************************************)
C10_WinBeforeOver ==
    (IsMove(response) /\ check_win(board)) => (won /\ ~over)

\* a move left a full board with no equal neighbours that holds the target
C10_FullBoardWithTarget ==
    /\ IsMove(response) /\ response.success
    /\ check_win(board) /\ check_game_over(board)
    /\ won /\ ~over

(***************************************************************************)
(* The board read cell by cell: its cells, the pairs of cells that share   *)
(* an edge, and the two conditions of the end of a game.                   *)
(***************************************************************************)
Cells == (1..size_y) \X (1..size_x)
Cell(b, c) == b[c[1]][c[2]]
Distance(a, b) == IF a < b THEN b - a ELSE a - b
Adjacent(c, d) == Distance(c[1], d[1]) + Distance(c[2], d[2]) = 1
HasEmptyCell(b) == \E c \in Cells : Cell(b, c) = 0
HasEqualNeighbours(b) ==
    \E c, d \in Cells : Adjacent(c, d) /\ Cell(b, c) = Cell(b, d)
HasWinCell(b) == \E c \in Cells : Cell(b, c) >= win_value

(***************************************************************************)
(* C11: after a move command that leaves no cell >= the win target, over   *)
(* is set if and only if the board has no empty cell and no two            *)
(* horizontally or vertically adjacent cells are equal.                    *)
(***************************************************************************)
C11_OverIffNoEmptyNoEqualPair ==
    [][(IsMove(response') /\ ~HasWinCell(board')) =>
        (over' <=> (~HasEmptyCell(board') /\ ~HasEqualNeighbours(board')))]_vars

\* a second or later move filled the board with no equal neighbours and
\* no win cell, and the command reported the end of the game
C11_LostAfterSeveralMoves ==
    /\ IsMove(response) /\ response.game_ended /\ moves_count >= 2
    /\ ~HasWinCell(board) /\ ~HasEmptyCell(board)
    /\ ~HasEqualNeighbours(board) /\ over

(***************************************************************************)
(* What the claims on the merge functions read off a call: the call made,  *)
(* its argument and what it returned, as recorded in the response.         *)
(***************************************************************************)
IsLineCall == response.command = "_process_line"
IsMoveCall == response.command = "_execute_move"
Standard == merge_strategy = "standard"
Front(l) == SubSeq(l, 1, Len(l) - 1)
Last(l) == l[Len(l)]
Compressed(l) == SelectSeq(l, LAMBDA v : v # 0)
Padded(l, n) == l \o [i \in 1..(n - Len(l)) |-> 0]
BoardSum(b) == SumSeq(List([y \in 1..Len(b) |-> SumSeq(b[y])]))
HasEqualPair(l) == \E i \in 1..(Len(l) - 1) : l[i] # 0 /\ l[i] = l[i + 1]

(***************************************************************************)
(* C12: merging conserves value: the line _process_line returns has the    *)
(* sum of the line it was given, under both policies and both settings of  *)
(* the secondary-merge flag, and a move leaves the sum of all board cells  *)
(* unchanged.                                                              *)
(***************************************************************************)
C12_MergeConservesValue ==
    /\ IsLineCall => SumSeq(response.new_line) = SumSeq(response.line)
    /\ IsMoveCall => BoardSum(board) = BoardSum(response.board)

\* a line of four tiles was merged twice in one call
C12_FourTilesMergedTwice ==
    /\ IsLineCall /\ allow_secondary_merge /\ response.merge_occurred
    /\ Len(response.line) = 4 /\ Len(Compressed(response.new_line)) = 1
    /\ response.points_earned > SumSeq(response.line)

(***************************************************************************)
(* The two single-pass references of the merge policies, on a line without *)
(* zeros.  FromHighEnd scans from the highest index down to index 0,       *)
(* FromLowEnd from index 0 upward; each replaces a scanned pair of equal   *)
(* neighbours by their sum and skips both, keeping the order.              *)
(***************************************************************************)
RECURSIVE FromHighEnd(_)
FromHighEnd(l) ==
    IF Len(l) = 0 THEN [line |-> <<>>, points |-> 0]
    ELSE IF Len(l) >= 2 /\ Last(l) = Last(Front(l))
    THEN LET rest == FromHighEnd(Front(Front(l)))
         IN  [line |-> Append(rest.line, 2 * Last(l)),
              points |-> rest.points + 2 * Last(l)]
    ELSE LET rest == FromHighEnd(Front(l))
         IN  [line |-> Append(rest.line, Last(l)), points |-> rest.points]

RECURSIVE FromLowEnd(_)
FromLowEnd(l) ==
    IF Len(l) = 0 THEN [line |-> <<>>, points |-> 0]
    ELSE IF Len(l) >= 2 /\ Head(l) = Head(Tail(l))
    THEN LET rest == FromLowEnd(Tail(Tail(l)))
         IN  [line |-> <<2 * Head(l)>> \o rest.line,
              points |-> rest.points + 2 * Head(l)]
    ELSE LET rest == FromLowEnd(Tail(l))
         IN  [line |-> <<Head(l)>> \o rest.line, points |-> rest.points]

\* what a call of _process_line returned, against a single-pass reference
ReturnedAs(ref) ==
    /\ response.new_line = Padded(ref.line, Len(response.line))
    /\ response.points_earned = ref.points
    /\ response.merge_occurred = (ref.points > 0)

(***************************************************************************)
(* C13: standard policy, secondary merge off: _process_line equals         *)
(* "remove zeros, scan from the highest index down to index 0, merge each  *)
(* scanned pair of equal neighbours and skip both, pad with zeros".        *)
(* [2,2,2] gives [2,4,0]; [2,2,4,4] gives [4,8,0,0], 12 points, merge.     *)
(***************************************************************************)
C13_StandardScansFromHighEnd ==
    (IsLineCall /\ Standard /\ ~allow_secondary_merge) =>
        /\ ReturnedAs(FromHighEnd(Compressed(response.line)))
        /\ response.line = <<2, 2, 2>> => response.new_line = <<2, 4, 0>>
        /\ response.line = <<2, 2, 4, 4>> =>
              /\ response.new_line = <<4, 8, 0, 0>>
              /\ response.points_earned = 12
              /\ response.merge_occurred

\* the standard policy left the tile nearest index 0 of an odd run unmerged
C13_StandardOddRun ==
    /\ IsLineCall /\ Standard /\ ~allow_secondary_merge
    /\ response.line = <<2, 2, 2>> /\ response.new_line = <<2, 4, 0>>

(***************************************************************************)
(* C14: reverse policy, secondary merge off: _process_line equals "remove  *)
(* zeros, scan from index 0 upward, merge each scanned pair of equal       *)
(* neighbours and skip both, pad with zeros".  [2,2,2] gives [4,2,0] with  *)
(* 4 points and merge; [2,2,2,2] gives [4,4,0,0] with 8 points.            *)
(***************************************************************************)
C14_ReverseScansFromLowEnd ==
    (IsLineCall /\ ~Standard /\ ~allow_secondary_merge) =>
        /\ ReturnedAs(FromLowEnd(Compressed(response.line)))
        /\ response.line = <<2, 2, 2>> =>
              /\ response.new_line = <<4, 2, 0>>
              /\ response.points_earned = 4
              /\ response.merge_occurred
        /\ response.line = <<2, 2, 2, 2>> =>
              /\ response.new_line = <<4, 4, 0, 0>>
              /\ response.points_earned = 8

\* the reverse policy left the tile farthest from index 0 of an odd run
C14_ReverseOddRun ==
    /\ IsLineCall /\ ~Standard /\ ~allow_secondary_merge
    /\ response.line = <<2, 2, 2>> /\ response.new_line = <<4, 2, 0>>

(***************************************************************************)
(* The merge pass re-run on its own output until a pass makes no merge,    *)
(* the points of all passes added up.                                      *)
(***************************************************************************)
RECURSIVE UntilNoMerge(_, _)
UntilNoMerge(l, standard) ==
    LET pass == IF standard THEN FromHighEnd(l) ELSE FromLowEnd(l)
    IN  IF pass.points = 0 THEN [line |-> l, points |-> 0]
        ELSE LET rest == UntilNoMerge(pass.line, standard)
             IN  [line |-> rest.line, points |-> pass.points + rest.points]

(***************************************************************************)
(* C15: with the secondary-merge flag set the merge pass is re-run on its  *)
(* own output until a pass makes no merge: the line returned has no two    *)
(* adjacent equal non-zero tiles and the points are those of all passes.   *)
(* [2,2,2,2] under the standard policy gives [8,0,0,0] with 16 points.     *)
(***************************************************************************)
C15_SecondaryMergeToFixpoint ==
    (IsLineCall /\ allow_secondary_merge) =>
        /\ ReturnedAs(UntilNoMerge(Compressed(response.line), Standard))
        /\ ~HasEqualPair(response.new_line)
        /\ (Standard /\ response.line = <<2, 2, 2, 2>>) =>
              /\ response.new_line = <<8, 0, 0, 0>>
              /\ response.points_earned = 16

\* four equal tiles collapsed to one tile in one call
C15_FourEqualTilesToOne ==
    /\ IsLineCall /\ allow_secondary_merge /\ Standard
    /\ response.line = <<2, 2, 2, 2>> /\ response.new_line = <<8, 0, 0, 0>>
    /\ response.points_earned = 16

(***************************************************************************)
(* C16: mirror symmetry: moving the mirrored board to the right gives the  *)
(* mirror of moving the board to the left, and moving the flipped board    *)
(* down gives the flip of moving the board up, with the same points and    *)
(* merge flag, under both policies and both flag settings (and the same    *)
(* with the directions exchanged).                                         *)
(***************************************************************************)
MirrorRows(b) == [y \in 1..Len(b) |-> Reverse(b[y])]
FlipColumns(b) == Reverse(b)
Opposite(direction) ==
    CASE direction = "left" -> "right" [] direction = "right" -> "left"
      [] direction = "up" -> "down" [] direction = "down" -> "up"
Mirror(direction, b) ==
    IF direction \in {"left", "right"} THEN MirrorRows(b) ELSE FlipColumns(b)

C16_MirrorSymmetry ==
    IsMoveCall =>
        LET mirrored == execute_move(Mirror(response.direction, response.board),
                                     Opposite(response.direction),
                                     merge_strategy, allow_secondary_merge)
        IN  /\ mirrored.board = Mirror(response.direction, board)
            /\ mirrored.points = response.points_earned
            /\ mirrored.merged = response.merge_occurred

\* a move to the left merged in a row that is not its own mirror image
C16_LeftMoveOfUnevenRow ==
    /\ IsMoveCall /\ response.direction = "left" /\ response.merge_occurred
    /\ response.board[1] = <<2, 2, 4>> /\ board[1] # Reverse(board[1])

(***************************************************************************)
(* C17: no-op invariance: a line whose tiles are already packed toward     *)
(* index 0 with no two equal neighbours is returned unchanged with 0       *)
(* points and no merge, under both policies and both flag settings, and    *)
(* so is a line of zeros.                                                  *)
(***************************************************************************)
IsPacked(l) == l = Padded(Compressed(l), Len(l))

C17_NoOpInvariance ==
    (IsLineCall /\ IsPacked(response.line) /\ ~HasEqualPair(response.line)) =>
        /\ response.new_line = response.line
        /\ response.points_earned = 0
        /\ ~response.merge_occurred

\* a full line without equal neighbours came back unchanged
C17_FullLineUnchanged ==
    /\ IsLineCall /\ response.line = <<2, 4, 2, 4>>
    /\ response.new_line = response.line /\ ~response.merge_occurred

(***************************************************************************)
(* What the claims on the streak read off an accepted move: the points and *)
(* the merge flag are those recorded in the entry the move appended to the *)
(* move log.                                                               *)
(***************************************************************************)
Accepted(r) == IsMove(r) /\ r.success
One == multiplier_of(0)             \* the multiplier 1, in hundredths

(***************************************************************************)
(* C18: on an accepted move with streak enabled: after a merge the streak  *)
(* grows by 1 and the score by points_earned plus the bonus                *)
(* floor(points_earned * new streak * bonus_percent / 100); without a      *)
(* merge the streak becomes 0, the multiplier 1 and the score grows by     *)
(* points_earned, which is 0.                                              *)
(***************************************************************************)
C18_StreakScoring ==
    [][(Accepted(response') /\ use_streak) =>
        LET entry == move_history'[Len(move_history')]
            points == entry.points_earned
        IN  IF entry.merge_occurred
            THEN /\ streak' = streak + 1
                 /\ score' = score + points
                      + ((points * streak' * streak_bonus_percent) \div 100)
            ELSE /\ streak' = 0
                 /\ streak_multiplier' = One
                 /\ points = 0
                 /\ score' = score]_vars

(***************************************************************************)
(* C19: with streak disabled the streak is 0 and the multiplier 1 in every *)
(* reachable state, and every accepted move adds exactly its points_earned *)
(* to the score, whatever moves, redos and restarts are applied.           *)
(***************************************************************************)
C19_StreakDisabled ==
    [][~use_streak =>
        /\ streak = 0 /\ streak_multiplier = One
        /\ streak' = 0 /\ streak_multiplier' = One
        /\ Accepted(response') =>
              score' = score
                  + move_history'[Len(move_history')].points_earned]_vars

\* with streak disabled a second move merged and scored its points only
C19_MergedWithoutStreak ==
    /\ ~use_streak /\ Accepted(response) /\ moves_count >= 2
    /\ LastMove.merge_occurred /\ LastMove.points_earned > 0
    /\ streak = 0 /\ score = move_history[1].points_earned
                                + move_history[2].points_earned

(***************************************************************************)
(* C20: in every reachable state, those restored by redo included, the     *)
(* multiplier is 1 + streak * bonus_percent / 100 when streak > 0 and      *)
(* exactly 1 when streak = 0; it is never below 1, and score, streak and   *)
(* move count are never negative.                                          *)
(***************************************************************************)
C20_MultiplierFollowsStreak ==
    /\ streak > 0 => streak_multiplier = One + streak * streak_bonus_percent
    /\ streak = 0 => streak_multiplier = One
    /\ streak_multiplier >= One
    /\ score >= 0 /\ streak >= 0 /\ moves_count >= 0

\* a redo restored a state whose streak was 1 after a streak of 2
C20_RedoRestoredStreak ==
    /\ IsRedo(response) /\ response.success /\ use_streak
    /\ streak = 1 /\ streak_multiplier = One + streak_bonus_percent
    /\ moves_count = 1

(***************************************************************************)
(* C21: the available-moves probe is pure and exact: it leaves the board,  *)
(* score, streak, multiplier, move count, flags, move log, redo counter    *)
(* and history stack as they were, and a move issued right after it is     *)
(* accepted if and only if its direction is among those the probe          *)
(* returned; the directions returned are those whose trial move changes    *)
(* the board.                                                              *)
(***************************************************************************)
IsProbe(r) == r.command = "game-state"
Range(s) == {s[i] : i \in 1..Len(s)}

C21_ProbePureAndExact ==
    [][/\ IsProbe(response') =>
            /\ UNCHANGED <<board, score, streak, streak_multiplier, over,
                           won, moves_count, move_history, redos_used,
                           history>>
            /\ Range(response'.available_moves) =
                 {d \in Directions :
                    execute_move(board, d, merge_strategy,
                                 allow_secondary_merge).board # board}
       /\ (IsProbe(response) /\ IsMove(response') /\ moves_count < MaxMoves)
            => (response'.success <=>
                  response'.command \in Range(response.available_moves))
      ]_vars

\* the probe ran on a board where some directions are legal and some not
C21_ProbeFoundSomeMoves ==
    /\ IsProbe(response)
    /\ response.available_moves # <<>>
    /\ Len(response.available_moves) < Cardinality(Directions)
    /\ moves_count >= 1 /\ Len(history) = moves_count + 1

(***************************************************************************)
(* C22: restart, from any state, leaves a fresh active game: score 0,      *)
(* streak 0, multiplier 1, move count 0, won and over false, an empty move *)
(* log, redos_used 0, a board with exactly initial_tiles non-zero cells,   *)
(* each a spawn value, and a history stack of exactly one snapshot, which  *)
(* equals that state.                                                      *)
(***************************************************************************)
TilesOn(b) == {c \in Cells : Cell(b, c) # 0}
LiveState ==
    get_state_copy(board, score, streak, streak_multiplier, over, won,
                   display_message, moves_count, move_history)
IsFresh ==
    /\ score = 0 /\ streak = 0 /\ streak_multiplier = One
    /\ moves_count = 0 /\ ~won /\ ~over
    /\ move_history = <<>> /\ redos_used = 0
    /\ Cardinality(TilesOn(board)) = initial_tiles
    /\ \A c \in TilesOn(board) : Cell(board, c) \in new_tile_values
    /\ history = <<LiveState>>

C22_RestartIsFresh ==
    [][IsRestart(response') => IsFresh']_vars

\* a restart has run and left one tile on the board
C22_RestartedWithOneTile ==
    /\ IsRestart(response) /\ initial_tiles = 1
    /\ Cardinality(TilesOn(board)) = 1 /\ Len(history) = 1

(***************************************************************************)
(* C23: spawning only fills empty cells.  One call of add_random_tile on a *)
(* board without an empty cell returns false and changes nothing;          *)
(* otherwise it returns true and changes exactly one cell, from 0 to a     *)
(* spawn value.  After an accepted move exactly min(N, E) tiles have been  *)
(* spawned, N being random_new_tiles and E the number of empty cells of    *)
(* the board the merge step left (the board recorded in the move's log     *)
(* entry), each in a cell that was empty and with a spawn value.           *)
(***************************************************************************)
IsSpawnCall(r) == r.command = "add_random_tile"
Changed(before, after) == {c \in Cells : Cell(before, c) # Cell(after, c)}
OnlySpawned(before, after) ==
    \A c \in Changed(before, after) :
        Cell(before, c) = 0 /\ Cell(after, c) \in new_tile_values

C23_SpawnFillsEmptyCells ==
    /\ IsSpawnCall(response) =>
          IF HasEmptyCell(response.board)
          THEN /\ response.returned
               /\ Cardinality(Changed(response.board, board)) = 1
               /\ OnlySpawned(response.board, board)
          ELSE ~response.returned /\ board = response.board
    /\ Accepted(response) =>
          /\ Cardinality(Changed(LastMove.board_state, board)) =
                Min(random_new_tiles,
                    Cardinality(empty_cells(LastMove.board_state)))
          /\ OnlySpawned(LastMove.board_state, board)

\* a move left one empty cell although two tiles were to be spawned
C23_FewerEmptyCellsThanTiles ==
    /\ Accepted(response)
    /\ Cardinality(empty_cells(LastMove.board_state)) = 1
    /\ random_new_tiles = 2
    /\ ~HasEmptyCell(board)

(***************************************************************************)
(* C24: history snapshots are independent of the live state: a command     *)
(* that changes the live state without re-initialising the game (an        *)
(* accepted move, the available-moves probe, a redo, a move made after a   *)
(* redo) leaves every snapshot that stays on the history stack as it was.  *)
(***************************************************************************)
C24_SnapshotsKeepTheirValue ==
    [][~IsRestart(response') =>
        \A i \in 1..Min(Len(history), Len(history')) :
            history'[i] = history[i]]_vars

\* a move was accepted after a redo had restored an earlier snapshot
C24_MovedAfterRedo ==
    /\ Accepted(response) /\ redos_used >= 1 /\ Len(history) >= 2
    /\ history[Len(history) - 1].board # board

(***************************************************************************)
(* C25: the move log is append-only between restarts: over any move or     *)
(* redo command its length does not decrease and the entries it held stay  *)
(* in place unaltered; an accepted move appends exactly one entry and a    *)
(* rejected move none.                                                     *)
(***************************************************************************)
IsPrefix(s, t) == Len(s) <= Len(t) /\ SubSeq(t, 1, Len(s)) = s

C25_MoveLogAppendOnly ==
    [][(IsMove(response') \/ IsRedo(response')) =>
        /\ IsPrefix(move_history, move_history')
        /\ Accepted(response') =>
              Len(move_history') = Len(move_history) + 1
        /\ (IsMove(response') /\ ~response'.success) =>
              move_history' = move_history]_vars

(***************************************************************************)
(* C25 as amended: between restarts the move log changes in two ways only: *)
(* an accepted move appends exactly one entry, and a successful redo       *)
(* restores the log of the snapshot it restores, which is the log without  *)
(* its last entry.  A rejected move and a rejected redo leave it as it     *)
(* is, and no entry that stays in the log is altered.                      *)
(***************************************************************************)
C25_MoveLogFollowsHistory ==
    [][/\ Accepted(response') =>
            /\ IsPrefix(move_history, move_history')
            /\ Len(move_history') = Len(move_history) + 1
       /\ (IsRedo(response') /\ response'.success) =>
            /\ move_history # <<>>
            /\ move_history' = Front(move_history)
       /\ ((IsMove(response') \/ IsRedo(response')) /\ ~response'.success) =>
            move_history' = move_history]_vars

\* a redo took the second of two moves back and its entry left the log
C25_RedoShortenedTheLog ==
    /\ IsRedo(response) /\ response.success
    /\ Len(move_history) = 1 /\ Len(history) = 2
    /\ move_history[1].move_number = 1

(***************************************************************************)
(* C26: the entry an accepted move appends to the move log records the     *)
(* streak after that move, i.e. the live streak once the move's streak     *)
(* update (increment on a merge, reset without one) has been applied, and  *)
(* its move_number is the new move count.                                  *)
(***************************************************************************)
C26_EntryRecordsStreakAfterMove ==
    Accepted(response) =>
        /\ LastMove.streak_after_move = streak
        /\ LastMove.move_number = moves_count

(***************************************************************************)
(* The constraints on a configuration, as the claims state them.           *)
(***************************************************************************)
IsConstruction(r) == r.command = "Game"
CellCount(r) == r.board_size[1] * r.board_size[2]
ConstraintsHold(r) ==
    /\ r.board_size[1] \in 3..12 /\ r.board_size[2] \in 3..12
    /\ r.win_target \in 4..10000
    /\ r.new_tile_values # <<>>
    /\ \A i \in 1..Len(r.new_tile_values) :
          /\ r.new_tile_values[i] \in 1..10
          /\ r.new_tile_values[i] < r.win_target
    /\ 1 <= r.initial_tiles /\ 2 * r.initial_tiles <= CellCount(r)
    /\ 1 <= r.random_new_tiles /\ 2 * r.random_new_tiles <= CellCount(r)
    /\ r.max_redo >= -1
    /\ r.number_of_hints \in 0..5
    /\ r.streak_bonus_percent \in 0..100

(***************************************************************************)
(* C27: game construction succeeds if and only if every configuration      *)
(* constraint holds (width and height in [3,12], win target in [4,10000],  *)
(* spawn values non-empty, each in [1,10] and below the win target,        *)
(* initial-tile count and tiles-per-spawn between 1 and half the cell      *)
(* count, max_redo >= -1, hint count in [0,5], streak bonus percent in     *)
(* [0,100]); any violation raises a validation error.                      *)
(***************************************************************************)
C27_ConstructedIffConstraintsHold ==
    IsConstruction(response) =>
        (response.error = NoError <=> ConstraintsHold(response.request))

(***************************************************************************)
(* C27 as amended: outside test mode, that is for a                        *)
(* GameConfigurationRequest passed to Game with test_mode false, as the    *)
(* server does, construction succeeds if and only if every configuration   *)
(* constraint holds, and any violation raises a validation error.          *)
(***************************************************************************)
InProduction(r) == r.class = "GameConfigurationRequest" /\ ~r.test_mode

C27_ConstructedIffConstraintsHoldInProduction ==
    (IsConstruction(response) /\ InProduction(response)) =>
        (response.error = NoError <=> ConstraintsHold(response.request))

\* a game was constructed in production mode with values at their limits
C27_ConstructedAtTheLimits ==
    /\ IsConstruction(response) /\ InProduction(response)
    /\ response.error = NoError
    /\ response.request.board_size = <<3, 3>>
    /\ response.request.initial_tiles = 4
    /\ response.request.win_target = 4
    /\ response.request.streak_bonus_percent = 100

(***************************************************************************)
(* C28: validation failure is atomic: a new-game request whose             *)
(* configuration is rejected exposes no game of its own and leaves the     *)
(* game that was running (board, score, streak, flags, message, move       *)
(* count, move log, redo counter, history stack and configuration) exactly *)
(* as it was.                                                              *)
(***************************************************************************)
IsNewGame(r) == r.command = "new-game"

C29_HistoryAccounting ==
    [][/\ Len(history) >= 1 /\ Len(history') >= 1
       /\ IsRestart(response') => Len(history') = 1
       /\ Accepted(response') => history' = Append(history, Top(history'))
       /\ (IsRedo(response') /\ response'.success) =>
             history' = Front(history)
       /\ ((IsMove(response') \/ IsRedo(response')) /\ ~response'.success) =>
             history' = history]_vars

\* three accepted moves and two redos left two snapshots
C29_ThreeMovesTwoRedos ==
    /\ IsRedo(response) /\ response.success
    /\ redos_used = 2 /\ Len(history) = 2 /\ moves_count = 1

(***************************************************************************)
(* C30: after every command the snapshot on top of the history agrees with *)
(* the live state on board, score, streak, multiplier and move count; the  *)
(* snapshot at stack position i (counted from 0) records move number i, so *)
(* the live move count is the history length - 1, and the move log has as  *)
(* many entries as the move count.                                         *)
(***************************************************************************)
C30_TopAgreesWithLiveState ==
    /\ Top(history).board = board
    /\ Top(history).score = score
    /\ Top(history).streak = streak
    /\ Top(history).streak_multiplier = streak_multiplier
    /\ Top(history).moves_count = moves_count
    /\ \A i \in 1..Len(history) : history[i].moves_count = i - 1
    /\ moves_count = Len(history) - 1
    /\ Len(move_history) = moves_count

\* a redo went back from the third move to the second
C30_BackToSecondMove ==
    /\ IsRedo(response) /\ response.success
    /\ moves_count = 2 /\ Len(history) = 3 /\ score > 0

(***************************************************************************)
(* CascadeSpec: Game._process_line called on a freshly constructed game    *)
(* with allow_secondary_merge set, on lines long enough for the secondary  *)
(* merge to recurse several times.  merge_passes counts the calls of       *)
(* _merge_standard / _merge_reverse that one call of _process_line makes:  *)
(* the first pass and every secondary pass.                                *)
(***************************************************************************)
MaxCascadeLen == 6
CascadeValues == {0, 2, 4, 8, 16, 32}

RECURSIVE CascadeLinesOfLen(_)
CascadeLinesOfLen(n) ==
    IF n = 0 THEN {<<>>}
    ELSE {Append(l, v) : l \in CascadeLinesOfLen(n - 1), v \in CascadeValues}

merge_scan(tiles, strategy) ==
    IF strategy = "reverse" THEN reverse_scan(tiles, 1)
    ELSE standard_scan(tiles, Len(tiles))

\* Faulty variant: the secondary merge also runs on a single remaining tile
RECURSIVE merge_passes_on_single_tile(_, _, _)
merge_passes_on_single_tile(tiles, strategy, secondary) ==
    IF Len(tiles) = 0 THEN [passes |-> 1, merging |-> 0]
    ELSE LET first == merge_scan(tiles, strategy)
             this == [passes |-> 1, merging |-> IF first.merged THEN 1 ELSE 0]
         IN  IF secondary /\ first.merged /\ Len(first.result) > 0
             THEN LET second == merge_passes_on_single_tile(first.result,
                                                           strategy, secondary)
                  IN  [passes |-> 1 + second.passes,
                       merging |-> 1 + second.merging]
             ELSE this

RECURSIVE merge_passes(_, _, _)
merge_passes(tiles, strategy, secondary) ==
    IF Len(tiles) = 0 THEN [passes |-> 1, merging |-> 0]
    ELSE LET first == merge_scan(tiles, strategy)
             this == [passes |-> 1, merging |-> IF first.merged THEN 1 ELSE 0]
         IN  IF secondary /\ first.merged /\ Len(first.result) > 1
             THEN LET second == merge_passes(first.result, strategy, secondary)
                  IN  [passes |-> 1 + second.passes,
                       merging |-> 1 + second.merging]
             ELSE this

process_line_passes(line, strategy, secondary) ==
    IF Len(non_zero(line)) = 0 THEN [passes |-> 0, merging |-> 0]
    ELSE merge_passes(non_zero(line), strategy, secondary)

CascadeLineCall ==
    /\ FreshGame
    /\ \E n \in size_x..MaxCascadeLen : \E line \in CascadeLinesOfLen(n) :
        LET r == process_line(line, merge_strategy, allow_secondary_merge)
            p == process_line_passes(line, merge_strategy,
                                     allow_secondary_merge)
        IN  response' = [command |-> "_process_line", line |-> line,
                         new_line |-> r.result, points_earned |-> r.points,
                         merge_occurred |-> r.merged,
                         passes |-> p.passes, merging_passes |-> p.merging]
    /\ UNCHANGED <<state, redos_used, history, config>>

CascadeInit == MergeInit /\ allow_secondary_merge

CascadeNext == CascadeLineCall

CascadeSpec == CascadeInit /\ [][CascadeNext]_vars

(***************************************************************************)
(* C31: the cascading (secondary) merge converges in at most               *)
(* ceil(log2(line length)) merge passes, for every line of length 3 and    *)
(* more and under both policies.  The passes counted here are the fewest   *)
(* any reading counts: the secondary passes that still merged something.   *)
(***************************************************************************)
RECURSIVE CeilLog2(_)
CeilLog2(n) == IF n <= 1 THEN 0 ELSE 1 + CeilLog2((n + 1) \div 2)

C31_CascadeWithinLog2Passes ==
    IsLineCall =>
        response.merging_passes - 1 <= CeilLog2(Len(response.line))

(***************************************************************************)
(* C31 as amended: the cascading merge converges in at most                *)
(* (line length - 1) merge passes, the first pass and a last pass that     *)
(* merges nothing included, for every line of length 3 and more and under  *)
(* both policies.                                                          *)
(***************************************************************************)
C31_CascadeWithinLengthPasses ==
    IsLineCall => response.passes <= Len(response.line) - 1

\* a line of six tiles that took five passes, each of them merging one pair
C31_FivePassesOnSixTiles ==
    /\ IsLineCall /\ Len(response.line) = 6
    /\ response.passes = 5 /\ response.merging_passes = 5
    /\ response.new_line = <<64, 0, 0, 0, 0, 0>>

(***************************************************************************)
(* C32: with the secondary merge disabled each tile merges at most once    *)
(* per move: the non-zero tiles of the line returned are, in order, the    *)
(* compressed input cut into blocks of one tile or of two equal            *)
(* neighbouring tiles, each block replaced by its sum, so a tile made by a *)
(* merge is never merged again; the points are the sums of the blocks of   *)
(* two.  [2,2,4] gives [4,4,0] and [2,2,2,2] gives [4,4,0,0].              *)
(***************************************************************************)
RECURSIVE MergedOnce(_)
MergedOnce(tiles) ==
    IF Len(tiles) = 0 THEN {[line |-> <<>>, points |-> 0]}
    ELSE {[line |-> <<Head(tiles)>> \o rest.line, points |-> rest.points] :
              rest \in MergedOnce(Tail(tiles))}
         \cup
         (IF Len(tiles) >= 2 /\ Head(tiles) = Head(Tail(tiles))
          THEN {[line |-> <<2 * Head(tiles)>> \o rest.line,
                 points |-> 2 * Head(tiles) + rest.points] :
                    rest \in MergedOnce(Tail(Tail(tiles)))}
          ELSE {})

C32_EachTileMergesAtMostOnce ==
    (IsLineCall /\ ~allow_secondary_merge) =>
        /\ \E ref \in MergedOnce(Compressed(response.line)) : ReturnedAs(ref)
        /\ response.line = <<2, 2, 4>> => response.new_line = <<4, 4, 0>>
        /\ response.line = <<2, 2, 2, 2>> =>
              response.new_line = <<4, 4, 0, 0>>

\* two tiles made by merges lie side by side, equal, and stay unmerged
C32_MergedTilesLeftSideBySide ==
    /\ IsLineCall /\ ~allow_secondary_merge /\ ~Standard
    /\ response.line = <<2, 2, 0, 4>> /\ response.new_line = <<4, 4, 0, 0>>
    /\ response.points_earned = 4

(***************************************************************************)
(* C33: line processing is total: for every line, under both policies and  *)
(* both settings of the secondary-merge flag, _process_line returns a line *)
(* of the same length whose non-zero tiles form a prefix starting at index *)
(* 0 followed only by zeros, with no more non-zero tiles than the input.   *)
(***************************************************************************)
C33_LineProcessingTotal ==
    IsLineCall =>
        /\ Len(response.new_line) = Len(response.line)
        /\ IsPacked(response.new_line)
        /\ \A i \in 1..Len(response.new_line) : response.new_line[i] >= 0
        /\ Len(Compressed(response.new_line)) <= Len(Compressed(response.line))
        /\ response.points_earned >= 0
        /\ response.merge_occurred \in BOOLEAN

\* a line with gaps came back merged, packed and padded to its length
C33_GapsClosedAndPadded ==
    /\ IsLineCall
    /\ response.line = <<0, 2, 0, 2>> /\ response.new_line = <<4, 0, 0, 0>>
    /\ response.points_earned = 4 /\ response.merge_occurred

(***************************************************************************)
(* C34: the points_earned of a move is the sum over all lines (rows for    *)
(* left and right, columns for up and down) of the merged values produced  *)
(* in that line, and merge_occurred is true iff at least one line produced *)
(* a merge; lines are processed independently: each line of the new board  *)
(* is the result of processing that line of the old board alone.           *)
(***************************************************************************)
LineCount(b, direction) ==
    IF direction \in {"left", "right"} THEN Len(b) ELSE Len(b[1])

\* line i of board b, read from the edge the tiles move to
LineOf(b, direction, i) ==
    CASE direction = "left" -> b[i]
      [] direction = "right" -> Reverse(b[i])
      [] direction = "up" -> Column(b, i)
      [] direction = "down" -> Reverse(Column(b, i))

LineAlone(l) ==
    IF allow_secondary_merge THEN UntilNoMerge(Compressed(l), Standard)
    ELSE IF Standard THEN FromHighEnd(Compressed(l))
    ELSE FromLowEnd(Compressed(l))

C34_PointsSumOverIndependentLines ==
    IsMoveCall =>
        LET n == LineCount(response.board, response.direction)
            alone == List([i \in 1..n |->
                LineAlone(LineOf(response.board, response.direction, i))])
        IN  /\ response.points_earned =
                   SumSeq(List([i \in 1..n |-> alone[i].points]))
            /\ response.merge_occurred = (\E i \in 1..n : alone[i].points > 0)
            /\ \A i \in 1..n :
                  LineOf(board, response.direction, i) =
                      Padded(alone[i].line,
                             Len(LineOf(response.board, response.direction, i)))

\* two columns merged in one move down, a third was left as it was
C34_TwoLinesMerged ==
    /\ IsMoveCall /\ response.direction = "down"
    /\ response.board = <<<<2, 4, 2>>, <<2, 4, 4>>, <<0, 0, 0>>>>
    /\ board = <<<<0, 0, 0>>, <<0, 0, 2>>, <<4, 8, 4>>>>
    /\ response.points_earned = 12 /\ response.merge_occurred

(***************************************************************************)
(* C35: with streak enabled, after every command (redo included) the       *)
(* streak equals the number of most recent consecutive accepted moves in   *)
(* the move log that each produced at least one merge; a rejected move     *)
(* neither extends nor breaks it.                                          *)
(***************************************************************************)
RECURSIVE TrailingMerges(_)
TrailingMerges(log) ==
    IF Len(log) = 0 \/ ~Last(log).merge_occurred THEN 0
    ELSE 1 + TrailingMerges(Front(log))

C35_StreakCountsTrailingMerges ==
    [][use_streak =>
        /\ streak' = TrailingMerges(move_history')
        /\ (IsMove(response') /\ ~response'.success) => streak' = streak]_vars

\* after a redo: a streak of one, broken by a move without a merge, and a
\* new streak begun by the third move of the log
C35_StreakBrokenAndBegunAgain ==
    /\ use_streak /\ Accepted(response) /\ redos_used >= 1
    /\ Len(move_history) = 3 /\ streak = 1
    /\ move_history[1].merge_occurred /\ ~move_history[2].merge_occurred

(***************************************************************************)
(* ConcurrentSpec: the server's handlers are plain functions, which the    *)
(* framework runs on worker threads, and Server.game is shared without a   *)
(* lock: while GET /game-state is inside get_ai_context's probe loop       *)
(* another request may run.  The probe is split at its statements (copy    *)
(* the board, trial move and comparison, assignment of the copy); a        *)
(* command that arrives meanwhile runs between two of them.  The request   *)
(* in flight keeps its locals in the response record: the direction it is  *)
(* at, original_board, available_moves, and for reference the state the    *)
(* game had when it began and the commands that ran meanwhile.  A run      *)
(* ends when the one overlapped request has been answered, and the other   *)
(* command arrives while the probe is at one of its first MaxOverlapIndex  *)
(* directions.                                                             *)
(***************************************************************************)
MaxOverlap == 1
MaxOverlapIndex == 1

Probing == response.command = "game-state" /\ response.in_flight
NoProbeYet == response.command # "game-state"

LiveFields ==
    [board |-> board, score |-> score, streak |-> streak,
     moves_count |-> moves_count, redos_used |-> redos_used,
     history |-> history]

ProbeBegin ==
    /\ NoProbeYet
    /\ response' = [command |-> "game-state", in_flight |-> TRUE,
                    index |-> 1, at |-> "copy", original_board |-> <<>>,
                    available_moves |-> <<>>, overlapped |-> <<>>,
                    before |-> LiveFields]
    /\ UNCHANGED <<state, redos_used, history, config>>

ProbeCopy ==
    /\ Probing /\ response.at = "copy"
    /\ response' = [response EXCEPT !.original_board = board, !.at = "trial"]
    /\ UNCHANGED <<state, redos_used, history, config>>

ProbeTrial ==
    /\ Probing /\ response.at = "trial"
    /\ LET moved == execute_move(board, ProbeOrder[response.index],
                                 merge_strategy, allow_secondary_merge)
       IN  /\ board' = moved.board
           /\ response' =
                [response EXCEPT
                    !.available_moves =
                        IF moved.board # response.original_board
                        THEN Append(@, ProbeOrder[response.index]) ELSE @,
                    !.at = "restore"]
    /\ UNCHANGED <<score, streak, streak_multiplier, over, won,
                   display_message, moves_count, move_history,
                   redos_used, history, config>>

ProbeRestore ==
    /\ Probing /\ response.at = "restore"
    /\ board' = response.original_board
    /\ response' =
         IF response.index < Len(ProbeOrder)
         THEN [response EXCEPT !.index = @ + 1, !.at = "copy"]
         ELSE [response EXCEPT !.in_flight = FALSE, !.at = "done"]
    /\ UNCHANGED <<score, streak, streak_multiplier, over, won,
                   display_message, moves_count, move_history,
                   redos_used, history, config>>

Meanwhile(command, success) ==
    [response EXCEPT
        !.overlapped = Append(@, [command |-> command, success |-> success])]

\* process_command(direction) run by another thread while the probe is in
\* flight: the steps of Move, on the live board as the probe has left it
OverlappedMoveRejected(direction) ==
    /\ LET end == end_of_move(board, won, over, MsgInvalidMove)
       IN  /\ won' = end.won
           /\ over' = end.over
           /\ display_message' = end.display_message
    /\ response' = Meanwhile(direction, FALSE)
    /\ UNCHANGED <<board, score, streak, streak_multiplier, moves_count,
                   move_history, redos_used, history, config>>

OverlappedMoveAccepted(direction, moved) ==
    /\ moves_count < MaxServerMoves
    /\ \E b \in add_random_tiles(moved.board, random_new_tiles) :
        LET mc == moves_count + 1
            sc == score_after(score, streak, moved)
            st == streak_after(streak, moved)
            mult == multiplier_after(streak_multiplier, streak, moved)
            msg == message_after(streak, moved)
            mh == Append(move_history,
                         move_entry(mc, direction, moved, streak))
            end == end_of_move(b, won, over, msg)
        IN  /\ board' = b
            /\ score' = sc
            /\ streak' = st
            /\ streak_multiplier' = mult
            /\ moves_count' = mc
            /\ move_history' = mh
            /\ history' = save_state_to_history(history,
                            get_state_copy(b, sc, st, mult, over, won,
                                           msg, mc, mh))
            /\ won' = end.won
            /\ over' = end.over
            /\ display_message' = end.display_message
    /\ response' = Meanwhile(direction, TRUE)
    /\ UNCHANGED <<redos_used, config>>

OverlappedMove(direction) ==
    /\ Probing /\ Len(response.overlapped) < MaxOverlap
    /\ response.index <= MaxOverlapIndex
    /\ \E moved \in {execute_move(board, direction, merge_strategy,
                                   allow_secondary_merge)} :
        IF move_is_valid(board, moved)
        THEN OverlappedMoveAccepted(direction, moved)
        ELSE OverlappedMoveRejected(direction)

\* process_command("redo") run by another thread while the probe is in flight
OverlappedRedo ==
    /\ Probing /\ Len(response.overlapped) < MaxOverlap
    /\ response.index <= MaxOverlapIndex
    /\ IF redo_rejection(max_redo, redos_used, history) # NoMessage
       THEN /\ display_message' =
                   redo_rejection(max_redo, redos_used, history)
            /\ response' = Meanwhile("redo", FALSE)
            /\ UNCHANGED <<board, score, streak, streak_multiplier, over,
                           won, moves_count, move_history, redos_used,
                           history, config>>
       ELSE /\ LET previous_state == restored_state(history)
               IN  /\ history' = history_after_redo(history)
                   /\ board' = previous_state.board
                   /\ score' = previous_state.score
                   /\ streak' = previous_state.streak
                   /\ streak_multiplier' = previous_state.streak_multiplier
                   /\ over' = previous_state.over
                   /\ won' = previous_state.won
                   /\ moves_count' = previous_state.moves_count
                   /\ move_history' = previous_state.move_history
            /\ redos_used' = redos_used + 1
            /\ display_message' = MsgUndone(redos_used + 1, max_redo)
            /\ response' = Meanwhile("redo", TRUE)
            /\ UNCHANGED config

ConcurrentInit == ProductionStart /\ new_game

ConcurrentNext ==
    \/ \E direction \in Directions :
          /\ NoProbeYet
          /\ moves_count + MaxOverlap < MaxServerMoves
          /\ Move(direction)
    \/ NoProbeYet /\ Redo
    \/ ProbeBegin
    \/ ProbeCopy
    \/ ProbeTrial
    \/ ProbeRestore
    \/ \E direction \in Directions : OverlappedMove(direction)
    \/ OverlappedRedo

ConcurrentSpec == ConcurrentInit /\ [][ConcurrentNext]_vars

(***************************************************************************)
(* C36: commands on one game instance never interleave: when /game-state   *)
(* overlaps with /move or /redo, the state left when both have completed   *)
(* is the state some serial order of the two leaves.  The probe alone      *)
(* changes nothing, so in either order that is a state the other command   *)
(* leaves when run on the state the game had before the two, and the       *)
(* moves reported are those of the board before or after that command.     *)
(***************************************************************************)
SeriallyMoved(before, direction, succeeded) ==
    LET moved == execute_move(before.board, direction, merge_strategy,
                              allow_secondary_merge)
    IN  IF move_is_valid(before.board, moved)
        THEN /\ succeeded
             /\ board \in add_random_tiles(moved.board, random_new_tiles)
             /\ score = score_after(before.score, before.streak, moved)
             /\ moves_count = before.moves_count + 1
             /\ redos_used = before.redos_used
             /\ history = Append(before.history, Top(history))
             /\ Top(history).board = board
        ELSE ~succeeded /\ LiveFields = before

SeriallyRedone(before, succeeded) ==
    IF redo_rejection(max_redo, before.redos_used, before.history) # NoMessage
    THEN ~succeeded /\ LiveFields = before
    ELSE /\ succeeded
         /\ board = restored_state(before.history).board
         /\ score = restored_state(before.history).score
         /\ moves_count = restored_state(before.history).moves_count
         /\ redos_used = before.redos_used + 1
         /\ history = history_after_redo(before.history)

C36_OverlappingCommandsSerializable ==
    (response.command = "game-state" /\ ~response.in_flight) =>
        /\ response.available_moves \in
               {get_ai_context(response.before.board).available_moves,
                get_ai_context(board).available_moves}
        /\ \A i \in 1..Len(response.overlapped) :
              LET other == response.overlapped[i]
              IN  IF other.command = "redo"
                  THEN SeriallyRedone(response.before, other.success)
                  ELSE SeriallyMoved(response.before, other.command,
                                     other.success)
        /\ response.overlapped = <<>> => LiveFields = response.before

(***************************************************************************)
(* C37: after every command processed through process_command (accepted   *)
(* or rejected move, redo, restart), won is true if and only if the live   *)
(* board contains a cell >= the win target.                                *)
(***************************************************************************)
C37_WonIffWinCellOnBoard ==
    (IsMove(response) \/ IsRedo(response) \/ IsRestart(response)) =>
        (won <=> HasWinCell(board))

(***************************************************************************)
(* C38: over agrees with the enumeration of legal moves: whenever over is  *)
(* true no direction would be accepted and the available moves reported    *)
(* are none; conversely, after any move command on a board with at least   *)
(* one tile and no cell >= the win target, if no direction would be        *)
(* accepted then over is true.                                             *)
(***************************************************************************)
WouldBeAccepted(b, direction) ==
    execute_move(b, direction, merge_strategy, allow_secondary_merge).board # b

NoLegalMove(b) == \A direction \in Directions : ~WouldBeAccepted(b, direction)

C38_OverAgreesWithLegalMoves ==
    /\ over => NoLegalMove(board)
    /\ (over /\ IsProbe(response)) => response.available_moves = <<>>
    /\ (IsMove(response) /\ TilesOn(board) # {} /\ ~HasWinCell(board)
          /\ NoLegalMove(board)) => over

\* the game is over and the probe that followed found no legal move
C38_OverAndNothingAvailable ==
    /\ over /\ IsProbe(response) /\ response.available_moves = <<>>
    /\ moves_count >= 2 /\ ~HasWinCell(board)

(***************************************************************************)
(* C39: with the secondary merge enabled line processing is idempotent     *)
(* under both policies: processing the line _process_line returned gives   *)
(* it back unchanged with 0 points and no merge; so a second move in the   *)
(* same direction, no tile spawned in between, is rejected.                *)
(***************************************************************************)
C39_SecondaryMergeIdempotent ==
    /\ (IsLineCall /\ allow_secondary_merge) =>
          process_line(response.new_line, merge_strategy, TRUE) =
              [result |-> response.new_line, points |-> 0, merged |-> FALSE]
    /\ (IsMoveCall /\ allow_secondary_merge) =>
          LET again == execute_move(board, response.direction,
                                    merge_strategy, TRUE)
          IN  /\ ~move_is_valid(board, again)
              /\ again.points = 0 /\ ~again.merged

\* a line that cascaded through three passes, then came back unchanged
C39_CascadedLineIsFixed ==
    /\ IsLineCall /\ allow_secondary_merge /\ ~Standard
    /\ response.line = <<2, 2, 4, 8>> /\ response.new_line = <<16, 0, 0, 0>>
    /\ response.points_earned = 28

(***************************************************************************)
(* C40: progress: with tiles-per-spawn >= 1 every accepted move spawns at  *)
(* least one tile, so the sum of all board cells strictly increases with   *)
(* each accepted move.  Consequently the accepted moves of a run without   *)
(* redo or restart are finitely many before a cell >= the win target or a  *)
(* stuck board is reached, with won or over set: the sum is at least the   *)
(* initial sum plus the least spawn value per accepted move, it stays      *)
(* below cells x win target while no cell reaches the target, a move that  *)
(* makes such a cell sets won, and a move that leaves no legal move sets   *)
(* over.                                                                   *)
(***************************************************************************)
LeastSpawnValue ==
    CHOOSE v \in new_tile_values : \A w \in new_tile_values : v <= w

C40_AcceptedMovesMakeProgress ==
    [][/\ (Accepted(response') /\ random_new_tiles >= 1) =>
            /\ Cardinality(TilesOn(board')) >
                  Cardinality(TilesOn(
                      move_history'[Len(move_history')].board_state))
            /\ BoardSum(board') > BoardSum(board)
            /\ HasWinCell(board') => won'
            /\ (~HasWinCell(board') /\ NoLegalMove(board')) => over'
       /\ random_new_tiles >= 1 =>
            BoardSum(board') >= BoardSum(history'[1].board)
                                  + LeastSpawnValue * moves_count'
       /\ ~HasWinCell(board') =>
            BoardSum(board') < Cardinality(Cells) * win_value]_vars

\* the second move freed one cell for the two tiles to spawn, and got one
C40_OneTileSpawnedOfTwo ==
    /\ Accepted(response) /\ random_new_tiles = 2 /\ moves_count = 2
    /\ Cardinality(TilesOn(LastMove.board_state)) = Cardinality(Cells) - 1
    /\ BoardSum(board) = BoardSum(LastMove.board_state) + LeastSpawnValue
    /\ ~HasEmptyCell(board) /\ ~won /\ ~over

=============================================================================
